---- MODULE Spec2Model ----
(***************************************************************************)
(* Crosshair overlay: the overlay state machine (mode switch, measurement  *)
(* drag, pointer capture, click-through, rendering), the tray menu and the *)
(* settings propagation pipeline (edit -> overlay, debounced persist),     *)
(* for the three variants of the program found in the repository:          *)
(*   "linux"   src/linux/crosshair_overlay.py    (GTK, one thread)         *)
(*   "windows" src/windows/crosshair_overlay.py  (Win32 loop + tk + tray)  *)
(*   "root"    src/crosshair_overlay.py          (GTK, crosshair only)     *)
(* Coordinates are integers in units of 1/SubPx pixel.  A settings record  *)
(* is represented by two of its keys, tick_enabled and tick_spacing.       *)
(***************************************************************************)
EXTENDS Integers, Sequences, FiniteSets, TLC

VARIABLES
    variant,        \* which of the three programs runs
    phase,          \* "start" (main not yet run) | "run" | "quitting" (WM_APP_QUIT
                    \* posted) | "exited" | "crashed" (uncaught exception)
    active,         \* CrosshairOverlay.active
    mode,           \* CrosshairOverlay.mode
    mpos,           \* CrosshairOverlay.(mx, my)
    measure_start,  \* CrosshairOverlay.measure_start (None or a point)
    measure_end,    \* CrosshairOverlay.measure_end
    measuring,      \* CrosshairOverlay.measuring
    capture,        \* pointer capture held (SetCapture .. ReleaseCapture)
    click_through,  \* input shape empty / WS_EX_TRANSPARENT set
    accept_focus,   \* set_accept_focus / WS_EX_NOACTIVATE cleared
    cursor,         \* cursor last set on the overlay window
    tray_mode,      \* mode shown as selected in the tray menu
    msgq,           \* messages posted to the overlay window (windows)
    frame,          \* draw commands of the frame on screen
    draw_queued,    \* queue_draw() pending (GTK)
    effects,        \* collaborator calls made by the last handler
    ov_cfg,         \* settings the overlay renders with
    cfg,            \* SettingsWindow.cfg, the settings record
    aliased,        \* SettingsWindow.cfg and overlay.cfg are one dict
    widgets,        \* values shown by the settings widgets
    visible,        \* settings window shown
    save_timer,     \* SettingsWindow._save_timer is not None
    pending_timers, \* debounce callbacks scheduled in the UI loop
    persisted,      \* content of the config file
    favorites,      \* SettingsWindow.favorites
    fav_file,       \* content of the favorites file
    tray_favs,      \* names listed in the tray's Favorites submenu
    tkq,            \* callbacks queued with root.after(0, ..) (windows)
    thread,         \* thread that ran the last handler
    in_save,        \* threads that are inside save_config
    torn,           \* the file being written was written or its record
                    \* changed by another thread meanwhile
    file_state,     \* config file: "json" | "missing" | "malformed" | ..
    fav_alias,      \* favorites whose stored dict is the dict
                    \* SettingsWindow.cfg itself, not a copy of it
    call_args,      \* arguments of a drawing helper studied on its own
    call_result,    \* what that helper drew or returned
    tick_loop,      \* position of that helper inside the tick section of
                    \* _draw_crosshair: pc, loop index i and the locals
    on_change_keys, \* widgets the running _on_change (tk thread) has still
                    \* to copy into the record; <<>> when none is running
    on_change_cfg,  \* the record as that _on_change found it
    snapshots       \* history: the record _save_favorite found when it
                    \* stored a name in this run

ovars == <<active, mode, mpos, measure_start, measure_end, measuring,
           capture, click_through, accept_focus, cursor>>
svars == <<cfg, aliased, widgets, visible, save_timer, pending_timers,
           persisted, favorites, fav_file, tray_favs, tkq>>
vars == <<variant, phase, active, mode, mpos, measure_start, measure_end,
          measuring, capture, click_through, accept_focus, cursor,
          tray_mode, msgq, frame, draw_queued, effects, ov_cfg,
          cfg, aliased, widgets, visible, save_timer, pending_timers,
          persisted, favorites, fav_file, tray_favs, tkq,
          thread, in_save, torn, file_state, fav_alias,
          call_args, call_result, tick_loop, on_change_keys, on_change_cfg,
          snapshots>>
pvars == <<call_args, call_result, tick_loop>>
wvars == <<on_change_keys, on_change_cfg>>
hvars == <<snapshots>>
tvars == <<in_save, torn, file_state, fav_alias>>

(* in_save holds <<thread, handler>> for each thread inside save_config. *)
Saving == {e[1] : e \in in_save}

(***************************************************************************)
(* Bounds of the model.                                                    *)
(***************************************************************************)
SubPx == 100        \* coordinate units per pixel
ScreenW == 4        \* width of the virtual screen, in pixels
ScreenH == 2        \* height of the virtual screen, in pixels
MaxQueue == 2       \* posted messages waiting in the overlay's queue
MaxTkQueue == 1     \* after(0, ..) callbacks waiting in the tk loop
MaxFavs == 1        \* favorite names the user may type
MaxStoreFavs == 2   \* favorite names in the study of the favorites store
MaxTickRadius == 26 \* largest crosshair_radius of the tick study, in pixels
TickScreenW == 40   \* full_width of the tick study
TickScreenH == 20   \* full_height of the tick study
MaxRulerLen == 101  \* longest measurement of the tick study, in pixels
MaxTickIter == 12   \* passes of a tick loop that are followed

(***************************************************************************)
(* Program constants.                                                      *)
(***************************************************************************)
SnapDegrees == 15       \* math.radians(15)
MinTickSpacing == 5     \* tick_spacing >= 5
DefaultTickSpacing == 10
VK_ESCAPE == 27
VK_CONTROL == 17

None == <<>>
Variants == {"linux", "windows", "root"}
Modes == {"crosshair", "measure"}

(* Pointer positions the environment reports, in whole pixels.  *)
Points == { <<0, 0>>,
            <<(ScreenW \div 2) * SubPx, 0>>,
            <<(ScreenW \div 2) * SubPx, (ScreenH \div 2) * SubPx>> }

(***************************************************************************)
(* Settings records.                                                       *)
(***************************************************************************)
DEFAULTS == [tick_enabled |-> FALSE, tick_spacing |-> DefaultTickSpacing]

(* Spacings a config file may hold; the spin button offers 5..200. *)
FileSpacings == {MinTickSpacing - 1, DefaultTickSpacing}
SpinSpacings == {MinTickSpacing, DefaultTickSpacing}
FileCfgs == [tick_enabled : BOOLEAN, tick_spacing : FileSpacings]

(* A key the defaults do not know, kept from an older config file. *)
UnknownKey == "legacy_key"

(* JSON objects a config file may hold: any subset of the keys. *)
FileObjects ==
    { [k \in S |-> full[k]] :
        full \in [tick_enabled : BOOLEAN, tick_spacing : FileSpacings,
                  legacy_key : {1}],
        S \in SUBSET {"tick_enabled", "tick_spacing", UnknownKey} }

EmptyObject == [k \in {UnknownKey} \ {UnknownKey} |-> 0]

(* What open() and json.load find: a JSON object, no file, text that is    *)
(* not JSON, JSON that is not an object (a number, null, a list of         *)
(* numbers), or a file that cannot be read (PermissionError, bad UTF-8).   *)
FileStates == {"json", "missing", "malformed", "not_object", "unreadable"}

(* dict.update: the keys of d override or extend c. *)
Update(c, d) ==
    [k \in (DOMAIN c) \cup (DOMAIN d) |-> IF k \in DOMAIN d THEN d[k] ELSE c[k]]

(***************************************************************************)
(* json.dump / json.load of a settings record.  The text of an object is   *)
(* the sequence of its members <<key, text of the value>> in dict order;   *)
(* a number is written in decimal digits, a bool as true / false.          *)
(***************************************************************************)
KeyOrder == <<"tick_enabled", "tick_spacing", UnknownKey>>
BoolKeys == {"tick_enabled"}
DigitChars == <<"0", "1", "2", "3", "4", "5", "6", "7", "8", "9">>

RECURSIVE Digits(_)
Digits(n) ==
    IF n < 10 THEN <<DigitChars[n + 1]>>
    ELSE Append(Digits(n \div 10), DigitChars[(n % 10) + 1])

DigitValue(ch) == CHOOSE d \in 0..9 : DigitChars[d + 1] = ch

RECURSIVE Number_LittleEndian(_)
RECURSIVE Number(_)

Number_LittleEndian(tok) ==
    IF Len(tok) = 1 THEN DigitValue(tok[1])
    ELSE DigitValue(tok[1]) + 10 * Number_LittleEndian(Tail(tok))

Number(tok) ==
    IF Len(tok) = 1 THEN DigitValue(tok[1])
    ELSE 10 * Number(SubSeq(tok, 1, Len(tok) - 1)) + DigitValue(tok[Len(tok)])

JsonText(k, v) ==
    IF k \in BoolKeys THEN (IF v THEN <<"true">> ELSE <<"false">>)
    ELSE Digits(v)

JsonValue(tok) ==
    IF tok = <<"true">> THEN TRUE
    ELSE IF tok = <<"false">> THEN FALSE
    ELSE Number(tok)

JsonDump(c) ==
    LET ks == SelectSeq(KeyOrder, LAMBDA k : k \in DOMAIN c)
    IN [i \in 1..Len(ks) |-> <<ks[i], JsonText(ks[i], c[ks[i]])>>]

(* json.load: an object; of members with the same key the last one counts *)
JsonLoad(text) ==
    [k \in {text[i][1] : i \in DOMAIN text} |->
        LET last == CHOOSE i \in DOMAIN text :
                        /\ text[i][1] = k
                        /\ \A j \in DOMAIN text : text[j][1] = k => j <= i
        IN JsonValue(text[last][2])]

(* The JSON object in the file after json.dump(c, f). *)
Written(c) == JsonLoad(JsonDump(c))

(* load_config: json.load and merged.update raise for a file that cannot   *)
(* be read or does not hold an object; only FileNotFoundError and          *)
(* JSONDecodeError are caught.                                             *)
LoadRaises(st) == st \in {"not_object", "unreadable"}

LoadConfig_DefaultsWin(st, obj) ==
    IF st = "json" THEN Update(obj, DEFAULTS) ELSE DEFAULTS

LoadConfig(st, obj) ==
    IF st = "json" THEN Update(DEFAULTS, obj) ELSE DEFAULTS

(***************************************************************************)
(* _snap_endpoint: polar form of (x2,y2)-(x1,y1), angle rounded to the     *)
(* nearest multiple of 15 degrees, same distance.  Cosines are scaled by   *)
(* 10000.                                                                  *)
(***************************************************************************)
Abs(n) == IF n < 0 THEN -n ELSE n

RoundDiv(a, b) == (2 * a + b) \div (2 * b)

(* floor(sqrt(n)), by bisection on lo*lo <= n < hi*hi *)
RECURSIVE Bisect(_, _, _)
Bisect(n, lo, hi) ==
    IF hi - lo <= 1 THEN lo
    ELSE LET mid == (lo + hi) \div 2
         IN IF mid * mid <= n THEN Bisect(n, mid, hi) ELSE Bisect(n, lo, mid)

ISqrt(n) == Bisect(n, 0, n + 1)

CosTable == <<10000, 9659, 8660, 7071, 5000, 2588, 0>>

CosK(k) ==
    IF Abs(k) <= 6 THEN CosTable[Abs(k) + 1] ELSE -CosTable[(12 - Abs(k)) + 1]

SinK(k) ==
    LET s == IF Abs(k) <= 6 THEN CosTable[(6 - Abs(k)) + 1]
                            ELSE CosTable[(Abs(k) - 6) + 1]
    IN IF k < 0 THEN -s ELSE s

SnapSteps == 180 \div SnapDegrees

SnapEndpoint_NoDegenerate(p1, p2) ==
    LET dx == p2[1] - p1[1]
        dy == p2[2] - p1[2]
        dist == ISqrt(dx * dx + dy * dy)
        k == CHOOSE j \in (1 - SnapSteps)..SnapSteps :
                \A i \in (1 - SnapSteps)..SnapSteps :
                    dx * CosK(j) + dy * SinK(j) >= dx * CosK(i) + dy * SinK(i)
    IN << p1[1] + RoundDiv(dist * CosK(k), 10000),
          p1[2] + RoundDiv(dist * SinK(k), 10000) >>

SnapEndpoint(p1, p2) ==
    LET dx == p2[1] - p1[1]
        dy == p2[2] - p1[2]
        d2 == dx * dx + dy * dy
        dist == ISqrt(d2)
        k == CHOOSE j \in (1 - SnapSteps)..SnapSteps :
                \A i \in (1 - SnapSteps)..SnapSteps :
                    dx * CosK(j) + dy * SinK(j) >= dx * CosK(i) + dy * SinK(i)
    IN IF d2 < SubPx * SubPx
       THEN p2
       ELSE << p1[1] + RoundDiv(dist * CosK(k), 10000),
               p1[2] + RoundDiv(dist * SinK(k), 10000) >>

(* _snap_endpoint on the pointer positions, computed once *)
SnappedFrom == [a \in Points |-> [b \in Points |-> SnapEndpoint(a, b)]]

DragEnd_NeverSnap(p, ctrl) == p

(* End point of a drag: snapped when Control is held and a start exists. *)
DragEnd(p, ctrl) ==
    IF ctrl /\ measure_start # None THEN SnappedFrom[measure_start][p] ELSE p

(***************************************************************************)
(* Rendering: the draw commands of one frame.                              *)
(***************************************************************************)
Repeat(x, n) == [i \in 1..n |-> x]

(* the guard of both tick sections *)
TicksOn_NoFloor(c) == c.tick_enabled

TicksOn(c) == c.tick_enabled /\ c.tick_spacing >= MinTickSpacing

DrawCrosshair(c) ==
    <<"hline", "vline">>
    \o (IF TicksOn(c) THEN <<"axis_ticks">> ELSE <<>>)

DrawMeasurement(c, ms, me) ==
    IF ms = None \/ me = None THEN <<>>
    ELSE LET dx == me[1] - ms[1]
             dy == me[2] - ms[2]
             d2 == dx * dx + dy * dy
             steps == ISqrt(d2) \div (c.tick_spacing * SubPx)
         IN <<"line", "marker", "marker">>
            \o (IF d2 < SubPx * SubPx THEN <<>>
                ELSE (IF TicksOn(c)
                      THEN Repeat("ruler_tick", steps) ELSE <<>>)
                     \o <<"label_bg", "label">>)

Render_IgnoreActive(v, act, md, c, ms, me) ==
    IF md = "measure"
    THEN (IF v = "windows" THEN <<"hit_fill">> ELSE <<>>)
         \o DrawMeasurement(c, ms, me)
    ELSE DrawCrosshair(c)

Render(v, act, md, c, ms, me) ==
    IF ~act THEN <<>>
    ELSE IF md = "measure"
    THEN (IF v = "windows" THEN <<"hit_fill">> ELSE <<>>)
         \o DrawMeasurement(c, ms, me)
    ELSE DrawCrosshair(c)

(* queue_draw() on GTK, the synchronous _redraw() on Win32. *)
Redraw(act, md, c, ms, me) ==
    IF variant = "windows"
    THEN /\ frame' = Render(variant, act, md, c, ms, me)
         /\ UNCHANGED draw_queued
    ELSE /\ draw_queued' = TRUE
         /\ UNCHANGED frame

RedrawFx == IF variant = "windows" THEN {"redraw"} ELSE {"queue_draw"}

NoRedraw == UNCHANGED <<frame, draw_queued>>

(***************************************************************************)
(* The tick sections of _draw_crosshair and _draw_measurement, in whole    *)
(* pixels.  A draw command is a record: a tick mark or the label of a      *)
(* major tick.                                                             *)
(***************************************************************************)
IsMajor_FromZero(i, maj) == IF maj > 0 THEN (i - 1) % maj = 0 ELSE FALSE

IsMajor_Never(i, maj) == FALSE

IsMajor(i, maj) == IF maj > 0 THEN i % maj = 0 ELSE FALSE

(* the extent of the two crosshair lines: <<h_left, h_right>>, <<v_top,   *)
(* v_bottom>>                                                              *)
AxisRange(c, center, full) ==
    IF c.crosshair_fullscreen THEN <<0, full>>
    ELSE <<center - c.crosshair_radius, center + c.crosshair_radius>>

(* body of "for x in (mx + dist, mx - dist)" for one x *)
AxisTick(axis, x, lo, hi, dist, major, labels) ==
    IF lo <= x /\ x <= hi
    THEN <<[op |-> "tick", axis |-> axis, pos |-> x, major |-> major]>>
         \o (IF labels /\ major
             THEN <<[op |-> "label", axis |-> axis, pos |-> x, text |-> dist]>>
             ELSE <<>>)
    ELSE <<>>

RECURSIVE AxisTicks_BothSides(_, _, _, _, _, _, _, _)
RECURSIVE AxisTicks(_, _, _, _, _, _, _, _)

AxisTicks_BothSides(axis, center, lo, hi, sp, maj, labels, i) ==
    LET dist == i * sp
        is_major == IsMajor(i, maj)
    IN IF center + dist <= hi /\ center - dist >= lo
       THEN AxisTick(axis, center + dist, lo, hi, dist, is_major, labels)
            \o AxisTick(axis, center - dist, lo, hi, dist, is_major, labels)
            \o AxisTicks_BothSides(axis, center, lo, hi, sp, maj, labels, i + 1)
       ELSE <<>>

(* the while loop of one axis, from index i on *)
AxisTicks(axis, center, lo, hi, sp, maj, labels, i) ==
    LET dist == i * sp
        is_major == IsMajor(i, maj)
    IN IF center + dist <= hi \/ center - dist >= lo
       THEN AxisTick(axis, center + dist, lo, hi, dist, is_major, labels)
            \o AxisTick(axis, center - dist, lo, hi, dist, is_major, labels)
            \o AxisTicks(axis, center, lo, hi, sp, maj, labels, i + 1)
       ELSE <<>>

CrosshairTicks(c, mx, my, full_width, full_height) ==
    LET h == AxisRange(c, mx, full_width)
        v == AxisRange(c, my, full_height)
    IN IF TicksOn(c)
       THEN AxisTicks("h", mx, h[1], h[2], c.tick_spacing,
                      c.tick_major_every, c.tick_labels, 1)
            \o AxisTicks("v", my, v[1], v[2], c.tick_spacing,
                         c.tick_major_every, c.tick_labels, 1)
       ELSE <<>>

(* "for i in range(1, steps + 1)", from index i on *)
RECURSIVE MeasurementTicks(_, _, _, _, _)
MeasurementTicks(i, steps, sp, maj, labels) ==
    IF i > steps THEN <<>>
    ELSE <<[op |-> "tick", t |-> i * sp, major |-> IsMajor(i, maj)]>>
         \o (IF IsMajor(i, maj) /\ labels
             THEN <<[op |-> "label", t |-> i * sp, text |-> i * sp]>>
             ELSE <<>>)
         \o MeasurementTicks(i + 1, steps, sp, maj, labels)

RulerTicks_OneMore(c, ms, me) ==
    LET dx == me[1] - ms[1]
        dy == me[2] - ms[2]
        d2 == dx * dx + dy * dy
    IN IF d2 < 1 \/ ~TicksOn(c) THEN <<>>
       ELSE MeasurementTicks(1, ISqrt(d2) \div c.tick_spacing + 1,
                             c.tick_spacing, c.tick_major_every,
                             c.tick_labels)

(* steps = int(dist / tick_spacing), dist = math.hypot(dx, dy) *)
RulerTicks(c, ms, me) ==
    LET dx == me[1] - ms[1]
        dy == me[2] - ms[2]
        d2 == dx * dx + dy * dy
    IN IF d2 < 1 \/ ~TicksOn(c) THEN <<>>
       ELSE MeasurementTicks(1, ISqrt(d2) \div c.tick_spacing,
                             c.tick_spacing, c.tick_major_every,
                             c.tick_labels)

(* Arguments the helpers are called with. *)
NoCall == [fn |-> "none"]

(* not inside the tick section *)
NoLoop == [pc |-> "idle", i |-> 0, sp |-> 0, maj |-> 0, labels |-> FALSE]

TickCfgs ==
    [crosshair_fullscreen : BOOLEAN,
     crosshair_radius : {12, 25, MaxTickRadius},
     tick_enabled : BOOLEAN,
     tick_spacing : {MinTickSpacing - 1, MinTickSpacing, DefaultTickSpacing},
     tick_major_every : {0, 2, 5},
     tick_labels : BOOLEAN]

AxisCalls ==
    { [fn |-> "axis_ticks", c |-> c, mx |-> x, my |-> y] :
        c \in TickCfgs, x \in {0, 7, TickScreenW},
        y \in {0, TickScreenH \div 2} }

RulerCfgs ==
    [tick_enabled : BOOLEAN,
     tick_spacing : {MinTickSpacing - 1, MinTickSpacing, 25},
     tick_major_every : {0, 2, 4},
     tick_labels : BOOLEAN]

RulerCalls ==
    { [fn |-> "measurement_ticks", c |-> c, ms |-> a, me |-> b] :
        c \in RulerCfgs, a \in {<<0, 0>>, <<27, 36>>},
        b \in {0, 27, 100, MaxRulerLen} \X {0, 36} }

SnapOffsets ==
    {2 * SubPx, SubPx, SubPx - 1, SubPx \div 2, 0,
     -(SubPx \div 2), 1 - SubPx, -2 * SubPx}

SnapCalls ==
    { [fn |-> "snap_endpoint", p1 |-> a, p2 |-> <<a[1] + dx, a[2] + dy>>] :
        a \in {<<0, 0>>, <<2 * SubPx, SubPx>>},
        dx \in SnapOffsets, dy \in SnapOffsets }

(***************************************************************************)
(* Startup: load_config, save_config, the overlay, the settings window and *)
(* the tray are built; the overlay window is shown click-through.          *)
(***************************************************************************)
ClampSpin(x) == IF x < MinTickSpacing THEN MinTickSpacing ELSE x

(* Widget values after the widgets were set from record c. *)
WidgetsOf(v, c) ==
    [tick_enabled |-> c.tick_enabled,
     tick_spacing |-> IF v = "windows" THEN c.tick_spacing
                                       ELSE ClampSpin(c.tick_spacing)]

FavNames == 1..MaxFavs
StoreNames == 1..MaxStoreFavs
NoFavorites == [n \in {} |-> DEFAULTS]

(* favs: what load_favorites returned *)
InitWith(favs) ==
    /\ variant \in Variants
    /\ phase = "run"
    /\ active = TRUE
    /\ mode = "crosshair"
    /\ mpos = IF variant = "windows" THEN <<0, 0>>
              ELSE <<(ScreenW \div 2) * SubPx, (ScreenH \div 2) * SubPx>>
    /\ measure_start = None
    /\ measure_end = None
    /\ measuring = FALSE
    /\ capture = FALSE
    /\ click_through = TRUE
    /\ accept_focus = FALSE
    /\ cursor = "default"
    /\ tray_mode = "crosshair"
    /\ msgq = <<>>
    /\ \E c \in FileCfgs :
          /\ cfg = c
          /\ ov_cfg = c
          /\ persisted = c
          /\ widgets = WidgetsOf(variant, c)
          /\ frame = IF variant = "windows"
                     THEN Render(variant, TRUE, "crosshair", c, None, None)
                     ELSE <<>>
    /\ draw_queued = (variant # "windows")
    /\ effects = {}
    /\ aliased = FALSE
    /\ visible = FALSE
    /\ save_timer = FALSE
    /\ pending_timers = 0
    /\ favorites = favs
    /\ fav_file = favs
    /\ tray_favs = DOMAIN favs
    /\ tkq = <<>>
    /\ thread = "main"
    /\ in_save = {}
    /\ torn = FALSE
    /\ file_state = "json"
    /\ fav_alias = {}
    /\ call_args = NoCall
    /\ call_result = <<>>
    /\ tick_loop = NoLoop
    /\ on_change_keys = <<>>
    /\ on_change_cfg = DEFAULTS
    /\ snapshots = NoFavorites

Init == InitWith(NoFavorites)

(***************************************************************************)
(* The program from its start: main runs load_config and save_config and   *)
(* builds the overlay, the settings window and the tray.  ok: the write of *)
(* the config file succeeds.  An exception that is not caught ends the     *)
(* process ("crashed").                                                    *)
(***************************************************************************)
InitConfig ==
    /\ variant \in Variants
    /\ phase = "start"
    /\ file_state \in FileStates
    /\ persisted \in (IF file_state = "json" THEN FileObjects
                                             ELSE {EmptyObject})
    /\ cfg = DEFAULTS
    /\ ov_cfg = DEFAULTS
    /\ widgets = WidgetsOf(variant, DEFAULTS)
    /\ active = TRUE
    /\ mode = "crosshair"
    /\ mpos = IF variant = "windows" THEN <<0, 0>>
              ELSE <<(ScreenW \div 2) * SubPx, (ScreenH \div 2) * SubPx>>
    /\ measure_start = None
    /\ measure_end = None
    /\ measuring = FALSE
    /\ capture = FALSE
    /\ click_through = TRUE
    /\ accept_focus = FALSE
    /\ cursor = "default"
    /\ tray_mode = "crosshair"
    /\ msgq = <<>>
    /\ frame = <<>>
    /\ draw_queued = FALSE
    /\ effects = {}
    /\ aliased = FALSE
    /\ visible = FALSE
    /\ save_timer = FALSE
    /\ pending_timers = 0
    /\ favorites = NoFavorites
    /\ fav_file = NoFavorites
    /\ tray_favs = {}
    /\ tkq = <<>>
    /\ thread = "main"
    /\ in_save = {}
    /\ torn = FALSE
    /\ fav_alias = {}
    /\ call_args = NoCall
    /\ call_result = <<>>
    /\ tick_loop = NoLoop
    /\ on_change_keys = <<>>
    /\ on_change_cfg = DEFAULTS
    /\ snapshots = NoFavorites

Main(ok) ==
    /\ phase = "start"
    /\ thread' = "main"
    /\ UNCHANGED <<pvars, wvars, hvars>>
    /\ IF LoadRaises(file_state)
       THEN /\ phase' = "crashed"
            /\ effects' = {"load_config"}
            /\ UNCHANGED <<cfg, ov_cfg, widgets, persisted, file_state,
                           frame, draw_queued>>
       ELSE IF ~ok /\ variant = "root"
       THEN /\ phase' = "crashed"
            /\ cfg' = LoadConfig(file_state, persisted)
            /\ effects' = {"load_config", "save_config", "write_failed"}
            /\ UNCHANGED <<ov_cfg, widgets, persisted, file_state, frame,
                           draw_queued>>
       ELSE /\ phase' = "run"
            /\ cfg' = LoadConfig(file_state, persisted)
            /\ ov_cfg' = cfg'
            /\ widgets' = WidgetsOf(variant, cfg')
            /\ persisted' = IF ok THEN Written(cfg') ELSE persisted
            /\ file_state' = IF ok THEN "json" ELSE file_state
            /\ frame' = IF variant = "windows"
                        THEN Render(variant, TRUE, "crosshair", cfg',
                                    None, None)
                        ELSE <<>>
            /\ draw_queued' = (variant # "windows")
            /\ effects' = {"load_config", "save_config"}
                          \cup (IF ok THEN {} ELSE {"write_failed"})
    /\ UNCHANGED ovars
    /\ UNCHANGED <<variant, tray_mode, msgq, aliased, visible, save_timer,
                   pending_timers, favorites, fav_file, tray_favs, tkq,
                   in_save, torn, fav_alias>>

(***************************************************************************)
(* CrosshairOverlay.set_mode.  sel is the tray's selection when the call   *)
(* is made; on GTK mode_changed_cb (_sync_mode_radio) sets it to the mode. *)
(***************************************************************************)
(* Calls made by a handler that calls set_mode(m). *)
SetModeFx_NoEarlyReturn(m) ==
    {"set_mode"} \cup RedrawFx
    \cup (IF m = "measure"
          THEN {"set_click_through", "request_focus", "set_cursor"}
          ELSE {"set_click_through"}
               \cup (IF variant = "linux" THEN {"set_cursor"} ELSE {}))
    \cup (IF variant = "linux" THEN {"mode_changed"} ELSE {})

SetModeFx(m) ==
    IF mode = m THEN {"set_mode"}
    ELSE {"set_mode"} \cup RedrawFx
         \cup (IF m = "measure"
               THEN {"set_click_through", "request_focus", "set_cursor"}
               ELSE {"set_click_through"}
                    \cup (IF variant = "linux" THEN {"set_cursor"} ELSE {}))
         \cup (IF variant = "linux" THEN {"mode_changed"} ELSE {})

SetMode_KeepClickThrough(m, sel) ==
    IF mode = m
    THEN /\ UNCHANGED ovars
         /\ NoRedraw
         /\ tray_mode' = sel
    ELSE /\ mode' = m
         /\ IF m = "measure"
            THEN /\ click_through' = FALSE
                 /\ accept_focus' = TRUE
                 /\ cursor' = "crosshair"
                 /\ UNCHANGED <<measure_start, measure_end, measuring>>
            ELSE /\ measure_start' = None
                 /\ measure_end' = None
                 /\ measuring' = FALSE
                 /\ accept_focus' = FALSE
                 /\ UNCHANGED click_through
                 /\ cursor' = IF variant = "linux" THEN "default" ELSE cursor
         /\ UNCHANGED <<active, mpos, capture>>
         /\ Redraw(active, m, ov_cfg, measure_start', measure_end')
         /\ tray_mode' = IF variant = "linux" THEN m ELSE sel

SetMode_KeepEndpoints(m, sel) ==
    IF mode = m
    THEN /\ UNCHANGED ovars
         /\ NoRedraw
         /\ tray_mode' = sel
    ELSE /\ mode' = m
         /\ IF m = "measure"
            THEN /\ click_through' = FALSE
                 /\ accept_focus' = TRUE
                 /\ cursor' = "crosshair"
            ELSE /\ accept_focus' = FALSE
                 /\ click_through' = TRUE
                 /\ cursor' = IF variant = "linux" THEN "default" ELSE cursor
         /\ measuring' = FALSE
         /\ UNCHANGED <<measure_start, measure_end>>
         /\ UNCHANGED <<active, mpos, capture>>
         /\ Redraw(active, m, ov_cfg, measure_start', measure_end')
         /\ tray_mode' = IF variant = "linux" THEN m ELSE sel

SetMode(m, sel) ==
    IF mode = m
    THEN /\ UNCHANGED ovars
         /\ NoRedraw
         /\ tray_mode' = sel
    ELSE /\ mode' = m
         /\ IF m = "measure"
            THEN /\ click_through' = FALSE
                 /\ accept_focus' = TRUE
                 /\ cursor' = "crosshair"
                 /\ UNCHANGED <<measure_start, measure_end, measuring>>
            ELSE /\ measure_start' = None
                 /\ measure_end' = None
                 /\ measuring' = FALSE
                 /\ accept_focus' = FALSE
                 /\ click_through' = TRUE
                 /\ cursor' = IF variant = "linux" THEN "default" ELSE cursor
         /\ UNCHANGED <<active, mpos, capture>>
         /\ Redraw(active, m, ov_cfg, measure_start', measure_end')
         /\ tray_mode' = IF variant = "linux" THEN m ELSE sel

(* The thread a handler of the settings window, or of the tray, runs on:   *)
(* GTK has one main loop; windows has the tk thread and the pystray thread. *)
UiThread == IF variant = "windows" THEN "tk" ELSE "main"

TrayThread == IF variant = "windows" THEN "tray" ELSE "main"

(* The tk thread is inside _on_change and runs no other callback. *)
TkBusy == on_change_keys # <<>>

(* A handler that returns without touching the overlay. *)
Ignored ==
    /\ UNCHANGED ovars
    /\ UNCHANGED tray_mode
    /\ NoRedraw
    /\ effects' = {}

Frozen == UNCHANGED <<variant, phase, ov_cfg>>

(***************************************************************************)
(* GTK overlay handlers (linux; poll_pointer and on_draw also root).       *)
(***************************************************************************)
OnButtonPress(p, button) ==
    /\ thread' = "main" /\ UNCHANGED tvars
    /\ UNCHANGED <<pvars, wvars, hvars>>
    /\ variant = "linux" /\ phase = "run"
    /\ IF mode # "measure" \/ button # 1
       THEN Ignored
       ELSE /\ measure_start' = p
            /\ measure_end' = p
            /\ measuring' = TRUE
            /\ draw_queued' = TRUE
            /\ effects' = {"queue_draw"}
            /\ UNCHANGED <<active, mode, mpos, capture, click_through,
                           accept_focus, cursor, tray_mode, frame>>
    /\ UNCHANGED msgq /\ Frozen /\ UNCHANGED svars

OnButtonRelease(p, ctrl, button) ==
    /\ thread' = "main" /\ UNCHANGED tvars
    /\ UNCHANGED <<pvars, wvars, hvars>>
    /\ variant = "linux" /\ phase = "run"
    /\ IF mode # "measure" \/ button # 1
       THEN Ignored
       ELSE /\ measure_end' = DragEnd(p, ctrl)
            /\ measuring' = FALSE
            /\ draw_queued' = TRUE
            /\ effects' = {"queue_draw"}
            /\ UNCHANGED <<active, mode, mpos, measure_start, capture,
                           click_through, accept_focus, cursor, tray_mode,
                           frame>>
    /\ UNCHANGED msgq /\ Frozen /\ UNCHANGED svars

OnMotionNotify(p, ctrl) ==
    /\ thread' = "main" /\ UNCHANGED tvars
    /\ UNCHANGED <<pvars, wvars, hvars>>
    /\ variant = "linux" /\ phase = "run"
    /\ IF mode # "measure" \/ ~measuring
       THEN Ignored
       ELSE /\ measure_end' = DragEnd(p, ctrl)
            /\ draw_queued' = TRUE
            /\ effects' = {"queue_draw"}
            /\ UNCHANGED <<active, mode, mpos, measure_start, measuring,
                           capture, click_through, accept_focus, cursor,
                           tray_mode, frame>>
    /\ UNCHANGED msgq /\ Frozen /\ UNCHANGED svars

OnKeyPress(key) ==
    /\ thread' = "main" /\ UNCHANGED tvars
    /\ UNCHANGED <<pvars, wvars, hvars>>
    /\ variant = "linux" /\ phase = "run"
    /\ IF key = VK_ESCAPE /\ mode = "measure"
       THEN /\ SetMode("crosshair", tray_mode)
            /\ effects' = SetModeFx("crosshair")
       ELSE Ignored
    /\ UNCHANGED msgq /\ Frozen /\ UNCHANGED svars

PollPointer_AnyMode(p) ==
    /\ thread' = "main" /\ UNCHANGED tvars
    /\ UNCHANGED <<pvars, wvars, hvars>>
    /\ variant \in {"linux", "root"} /\ phase = "run"
    /\ IF p # mpos
       THEN /\ mpos' = p
            /\ draw_queued' = TRUE
            /\ effects' = {"queue_draw"}
            /\ UNCHANGED <<active, mode, measure_start, measure_end,
                           measuring, capture, click_through, accept_focus,
                           cursor, tray_mode, frame>>
       ELSE Ignored
    /\ UNCHANGED msgq /\ Frozen /\ UNCHANGED svars

PollPointer(p) ==
    /\ thread' = "main" /\ UNCHANGED tvars
    /\ UNCHANGED <<pvars, wvars, hvars>>
    /\ variant \in {"linux", "root"} /\ phase = "run"
    /\ IF variant = "linux" /\ mode # "crosshair"
       THEN Ignored
       ELSE IF p # mpos
       THEN /\ mpos' = p
            /\ draw_queued' = TRUE
            /\ effects' = {"queue_draw"}
            /\ UNCHANGED <<active, mode, measure_start, measure_end,
                           measuring, capture, click_through, accept_focus,
                           cursor, tray_mode, frame>>
       ELSE Ignored
    /\ UNCHANGED msgq /\ Frozen /\ UNCHANGED svars

OnDraw ==
    /\ thread' = "main" /\ UNCHANGED tvars
    /\ UNCHANGED <<pvars, wvars, hvars>>
    /\ variant \in {"linux", "root"} /\ phase = "run"
    /\ draw_queued
    /\ frame' = Render(variant, active, mode, ov_cfg,
                       measure_start, measure_end)
    /\ draw_queued' = FALSE
    /\ effects' = {"draw"}
    /\ UNCHANGED ovars /\ UNCHANGED <<tray_mode, msgq>>
    /\ Frozen /\ UNCHANGED svars

(***************************************************************************)
(* CrosshairOverlay._wndproc (windows), one action per message.            *)
(***************************************************************************)
WmTimer(p) ==
    /\ thread' = "main" /\ UNCHANGED tvars
    /\ UNCHANGED <<pvars, wvars, hvars>>
    /\ variant = "windows" /\ phase \in {"run", "quitting"}
    /\ IF mode = "crosshair" /\ p # mpos
       THEN /\ mpos' = p
            /\ frame' = Render(variant, active, mode, ov_cfg,
                               measure_start, measure_end)
            /\ effects' = {"redraw"}
            /\ UNCHANGED <<active, mode, measure_start, measure_end,
                           measuring, capture, click_through, accept_focus,
                           cursor, tray_mode, draw_queued>>
       ELSE Ignored
    /\ UNCHANGED msgq /\ Frozen /\ UNCHANGED svars

WmLButtonDown(p) ==
    /\ thread' = "main" /\ UNCHANGED tvars
    /\ UNCHANGED <<pvars, wvars, hvars>>
    /\ variant = "windows" /\ phase \in {"run", "quitting"}
    /\ IF mode = "measure"
       THEN /\ measure_start' = p
            /\ measure_end' = p
            /\ measuring' = TRUE
            /\ capture' = TRUE
            /\ frame' = Render(variant, active, mode, ov_cfg, p, p)
            /\ effects' = {"capture_pointer", "redraw"}
            /\ UNCHANGED <<active, mode, mpos, click_through, accept_focus,
                           cursor, tray_mode, draw_queued>>
       ELSE Ignored
    /\ UNCHANGED msgq /\ Frozen /\ UNCHANGED svars

WmMouseMove(p, ctrl) ==
    /\ thread' = "main" /\ UNCHANGED tvars
    /\ UNCHANGED <<pvars, wvars, hvars>>
    /\ variant = "windows" /\ phase \in {"run", "quitting"}
    /\ IF mode = "measure" /\ measuring
       THEN /\ measure_end' = DragEnd(p, ctrl)
            /\ frame' = Render(variant, active, mode, ov_cfg,
                               measure_start, measure_end')
            /\ effects' = {"redraw"}
            /\ UNCHANGED <<active, mode, mpos, measure_start, measuring,
                           capture, click_through, accept_focus, cursor,
                           tray_mode, draw_queued>>
       ELSE IF mode = "measure"
       THEN /\ cursor' = "crosshair"
            /\ effects' = {"set_cursor"}
            /\ UNCHANGED <<active, mode, mpos, measure_start, measure_end,
                           measuring, capture, click_through, accept_focus,
                           tray_mode>>
            /\ NoRedraw
       ELSE Ignored
    /\ UNCHANGED msgq /\ Frozen /\ UNCHANGED svars

WmLButtonUp(p, ctrl) ==
    /\ thread' = "main" /\ UNCHANGED tvars
    /\ UNCHANGED <<pvars, wvars, hvars>>
    /\ variant = "windows" /\ phase \in {"run", "quitting"}
    /\ IF mode = "measure" /\ measuring
       THEN /\ measure_end' = DragEnd(p, ctrl)
            /\ measuring' = FALSE
            /\ capture' = FALSE
            /\ frame' = Render(variant, active, mode, ov_cfg,
                               measure_start, measure_end')
            /\ effects' = {"release_pointer", "redraw"}
            /\ UNCHANGED <<active, mode, mpos, measure_start, click_through,
                           accept_focus, cursor, tray_mode, draw_queued>>
       ELSE Ignored
    /\ UNCHANGED msgq /\ Frozen /\ UNCHANGED svars

WmKeyDown_NotWhileDragging(key) ==
    /\ thread' = "main" /\ UNCHANGED tvars
    /\ UNCHANGED <<pvars, wvars, hvars>>
    /\ variant = "windows" /\ phase \in {"run", "quitting"}
    /\ IF key = VK_ESCAPE /\ mode = "measure" /\ ~measuring
       THEN /\ SetMode("crosshair", tray_mode)
            /\ effects' = SetModeFx("crosshair")
       ELSE Ignored
    /\ UNCHANGED msgq /\ Frozen /\ UNCHANGED svars

WmKeyDown(key) ==
    /\ thread' = "main" /\ UNCHANGED tvars
    /\ UNCHANGED <<pvars, wvars, hvars>>
    /\ variant = "windows" /\ phase \in {"run", "quitting"}
    /\ IF key = VK_ESCAPE /\ mode = "measure"
       THEN /\ SetMode("crosshair", tray_mode)
            /\ effects' = SetModeFx("crosshair")
       ELSE Ignored
    /\ UNCHANGED msgq /\ Frozen /\ UNCHANGED svars

(* WM_APP_SETTINGS, WM_APP_MODE and WM_APP_QUIT, taken from the queue. *)
WmAppSettings ==
    /\ thread' = "main" /\ UNCHANGED tvars
    /\ UNCHANGED <<pvars, wvars, hvars>>
    /\ variant = "windows" /\ phase \in {"run", "quitting"}
    /\ msgq # <<>> /\ Head(msgq) = "settings"
    /\ msgq' = Tail(msgq)
    /\ frame' = Render(variant, active, mode, ov_cfg,
                       measure_start, measure_end)
    /\ effects' = {"redraw"}
    /\ UNCHANGED ovars /\ UNCHANGED <<tray_mode, draw_queued>>
    /\ Frozen /\ UNCHANGED svars

ModeOfMsg(msg) == IF msg = "mode1" THEN "measure" ELSE "crosshair"

WmAppMode ==
    /\ thread' = "main" /\ UNCHANGED tvars
    /\ UNCHANGED <<pvars, wvars, hvars>>
    /\ variant = "windows" /\ phase \in {"run", "quitting"}
    /\ msgq # <<>> /\ Head(msgq) \in {"mode0", "mode1"}
    /\ msgq' = Tail(msgq)
    /\ SetMode(ModeOfMsg(Head(msgq)), tray_mode)
    /\ effects' = SetModeFx(ModeOfMsg(Head(msgq)))
    /\ Frozen /\ UNCHANGED svars

WmAppQuit ==
    /\ thread' = "main" /\ UNCHANGED tvars
    /\ UNCHANGED <<pvars, wvars, hvars>>
    /\ variant = "windows" /\ phase \in {"run", "quitting"}
    /\ msgq # <<>> /\ Head(msgq) = "quit"
    /\ msgq' = Tail(msgq)
    /\ phase' = "exited"
    /\ effects' = {"destroy_window"}
    /\ UNCHANGED ovars /\ UNCHANGED <<tray_mode, frame, draw_queued>>
    /\ UNCHANGED <<variant, ov_cfg>> /\ UNCHANGED svars

(***************************************************************************)
(* Tray menu handlers.                                                     *)
(***************************************************************************)
TrayOnToggle ==
    /\ thread' = TrayThread /\ TrayThread \notin Saving /\ UNCHANGED tvars
    /\ UNCHANGED <<pvars, wvars, hvars>>
    /\ phase = "run"
    /\ active' = ~active
    /\ Redraw(~active, mode, ov_cfg, measure_start, measure_end)
    /\ effects' = RedrawFx
    /\ UNCHANGED <<mode, mpos, measure_start, measure_end, measuring,
                   capture, click_through, accept_focus, cursor, tray_mode,
                   msgq>>
    /\ Frozen /\ UNCHANGED svars

(* linux: the user picks a radio item; "toggled" runs on_mode_changed. *)
TrayOnModeChanged(m) ==
    /\ thread' = "main" /\ UNCHANGED tvars
    /\ UNCHANGED <<pvars, wvars, hvars>>
    /\ variant = "linux" /\ phase = "run"
    /\ IF tray_mode = m
       THEN Ignored
       ELSE /\ SetMode(m, m)
            /\ effects' = SetModeFx(m)
    /\ UNCHANGED msgq /\ Frozen /\ UNCHANGED svars

(* windows: on_mode_crosshair / on_mode_measure post WM_APP_MODE. *)
TrayOnMode(m) ==
    /\ thread' = TrayThread /\ TrayThread \notin Saving /\ UNCHANGED tvars
    /\ UNCHANGED <<pvars, wvars, hvars>>
    /\ variant = "windows" /\ phase = "run"
    /\ Len(msgq) < MaxQueue
    /\ tray_mode' = m
    /\ msgq' = Append(msgq, IF m = "measure" THEN "mode1" ELSE "mode0")
    /\ effects' = {"post_message"}
    /\ UNCHANGED ovars /\ NoRedraw
    /\ Frozen /\ UNCHANGED svars

(***************************************************************************)
(* Settings propagation pipeline.                                          *)
(***************************************************************************)
(* _schedule_save: cancel the pending timer, if any, and start a new one.  *)
(* The result is the number of callbacks then scheduled in the loop.       *)
ScheduleSave_NoCancel(timerSet, n) == n + 1

ScheduleSave(timerSet, n) == IF timerSet THEN (n - 1) + 1 ELSE n + 1

(* apply_settings: the overlay takes its own copy of the record. *)
ApplySettings(c) ==
    /\ ov_cfg' = c
    /\ aliased' = FALSE

(* The user changes one widget; sensitivity as set by on_tick_toggled. *)
UserEdit(k, v) ==
    /\ visible
    /\ v # widgets[k]
    /\ (k = "tick_spacing" /\ variant # "windows") => widgets.tick_enabled
    /\ widgets' = [widgets EXCEPT ![k] = v]

(* The favorites after the record became c: a favorite stored without a    *)
(* copy would change with the record.                                      *)
WriteThrough(c) ==
    [n \in DOMAIN favorites |-> IF n \in fav_alias THEN c ELSE favorites[n]]

(* linux SettingsWindow.on_change *)
OnChange(k, v) ==
    /\ thread' = "main" /\ UNCHANGED tvars
    /\ UNCHANGED <<pvars, wvars, hvars>>
    /\ variant = "linux" /\ phase = "run"
    /\ UserEdit(k, v)
    /\ cfg' = Update(cfg, widgets')
    /\ ApplySettings(cfg')
    /\ draw_queued' = TRUE
    /\ pending_timers' = ScheduleSave(save_timer, pending_timers)
    /\ save_timer' = TRUE
    /\ favorites' = WriteThrough(cfg')
    /\ effects' = {"apply_settings", "queue_draw", "schedule_save"}
    /\ UNCHANGED <<visible, persisted, fav_file, tray_favs, tkq>>
    /\ UNCHANGED ovars /\ UNCHANGED <<tray_mode, msgq, frame>>
    /\ UNCHANGED <<variant, phase>>

(* root SettingsWindow.on_change: writes the file on every edit.  ok: the   *)
(* write succeeds; root's save_config has no try, so a failed write raises *)
(* OSError out of the handler (the GTK loop goes on).                      *)
OnChangeRootIO(k, v, ok) ==
    /\ thread' = "main" /\ UNCHANGED <<in_save, torn, fav_alias>>
    /\ UNCHANGED <<pvars, wvars, hvars>>
    /\ file_state' = IF ok THEN "json" ELSE file_state
    /\ variant = "root" /\ phase = "run"
    /\ UserEdit(k, v)
    /\ cfg' = Update(cfg, widgets')
    /\ ApplySettings(cfg')
    /\ draw_queued' = TRUE
    /\ persisted' = IF ok THEN Written(cfg') ELSE persisted
    /\ effects' = {"apply_settings", "queue_draw", "save_config"}
                  \cup (IF ok THEN {} ELSE {"write_failed", "raised"})
    /\ UNCHANGED <<visible, save_timer, pending_timers, favorites, fav_file,
                   tray_favs, tkq>>
    /\ UNCHANGED ovars /\ UNCHANGED <<tray_mode, msgq, frame>>
    /\ UNCHANGED <<variant, phase>>

OnChangeRoot(k, v) == OnChangeRootIO(k, v, TRUE)

(* windows SettingsWindow._on_change (tk thread): the record is changed in *)
(* place and WM_APP_SETTINGS is posted; the overlay sees the change only   *)
(* if its cfg is the same dict.                                            *)
TkOnChange(k, v) ==
    /\ thread' = UiThread /\ UiThread \notin Saving /\ ~TkBusy
    /\ UNCHANGED <<pvars, wvars, hvars>>
    /\ torn' = (torn \/ in_save # {})
    /\ UNCHANGED <<in_save, file_state, fav_alias>>
    /\ variant = "windows" /\ phase \in {"run", "quitting"}
    /\ UserEdit(k, v)
    /\ Len(msgq) < MaxQueue
    /\ cfg' = Update(cfg, widgets')
    /\ ov_cfg' = IF aliased THEN cfg' ELSE ov_cfg
    /\ msgq' = Append(msgq, "settings")
    /\ pending_timers' = ScheduleSave(save_timer, pending_timers)
    /\ save_timer' = TRUE
    /\ favorites' = WriteThrough(cfg')
    /\ effects' = {"post_message", "schedule_save"}
    /\ UNCHANGED <<aliased, visible, persisted, fav_file, tray_favs, tkq>>
    /\ UNCHANGED ovars /\ UNCHANGED tray_mode /\ NoRedraw
    /\ UNCHANGED <<variant, phase>>

(***************************************************************************)
(* windows _on_change at the granularity of its loop over the widgets:     *)
(* each pass copies one widget into the record, which is the overlay's own *)
(* dict once on_settings has shared it, and the overlay's message loop     *)
(* (another thread) runs between two passes.  A spin box that was typed    *)
(* into raises no change event: its value reaches the record with the next *)
(* _on_change.                                                             *)
(***************************************************************************)
(* the rows of the window, in the order they were added to _widgets *)
WidgetKeys == <<"tick_enabled", "tick_spacing">>

(* the user types a value into the Spacing spin box *)
TkSpinTyped(v) ==
    /\ thread' = UiThread /\ UiThread \notin Saving /\ ~TkBusy
    /\ UNCHANGED tvars
    /\ UNCHANGED <<pvars, wvars, hvars>>
    /\ variant = "windows" /\ phase \in {"run", "quitting"}
    /\ visible
    /\ v # widgets.tick_spacing
    /\ widgets' = [widgets EXCEPT !.tick_spacing = v]
    /\ effects' = {}
    /\ UNCHANGED <<cfg, aliased, visible, save_timer, pending_timers,
                   persisted, favorites, fav_file, tray_favs, tkq>>
    /\ UNCHANGED ovars /\ UNCHANGED <<tray_mode, msgq>> /\ NoRedraw
    /\ Frozen

(* a widget raises its command: _on_change is entered *)
TkOnChangeEnter(k, v) ==
    /\ thread' = UiThread /\ UiThread \notin Saving /\ ~TkBusy
    /\ UNCHANGED tvars
    /\ UNCHANGED <<pvars, hvars>>
    /\ variant = "windows" /\ phase \in {"run", "quitting"}
    /\ UserEdit(k, v)
    /\ on_change_keys' = WidgetKeys
    /\ on_change_cfg' = cfg
    /\ effects' = {}
    /\ UNCHANGED <<cfg, aliased, visible, save_timer, pending_timers,
                   persisted, favorites, fav_file, tray_favs, tkq>>
    /\ UNCHANGED ovars /\ UNCHANGED <<tray_mode, msgq>> /\ NoRedraw
    /\ Frozen

(* one pass of the loop; after the last one WM_APP_SETTINGS is posted and  *)
(* the save is scheduled                                                   *)
TkOnChangeWrite ==
    /\ thread' = UiThread /\ TkBusy
    /\ UNCHANGED <<pvars, hvars>>
    /\ torn' = (torn \/ in_save # {})
    /\ UNCHANGED <<in_save, file_state, fav_alias>>
    /\ variant = "windows" /\ phase \in {"run", "quitting"}
    /\ LET key == Head(on_change_keys)
       IN cfg' = Update(cfg, [k \in {key} |-> widgets[k]])
    /\ ov_cfg' = IF aliased THEN cfg' ELSE ov_cfg
    /\ favorites' = WriteThrough(cfg')
    /\ on_change_keys' = Tail(on_change_keys)
    /\ UNCHANGED on_change_cfg
    /\ IF Len(on_change_keys) = 1
       THEN /\ Len(msgq) < MaxQueue
            /\ msgq' = Append(msgq, "settings")
            /\ pending_timers' = ScheduleSave(save_timer, pending_timers)
            /\ save_timer' = TRUE
            /\ effects' = {"post_message", "schedule_save"}
       ELSE /\ UNCHANGED <<msgq, pending_timers, save_timer>>
            /\ effects' = {}
    /\ UNCHANGED <<aliased, widgets, visible, persisted, fav_file, tray_favs,
                   tkq>>
    /\ UNCHANGED ovars /\ UNCHANGED tray_mode /\ NoRedraw
    /\ UNCHANGED <<variant, phase>>

(* _do_save: the debounce timer fires.  ok: the write succeeds; a failed   *)
(* write is printed by save_config and the handler returns.                *)
DoSaveIO(ok) ==
    /\ thread' = UiThread /\ UiThread \notin Saving /\ ~TkBusy
    /\ UNCHANGED <<pvars, wvars, hvars>>
    /\ UNCHANGED <<in_save, torn, fav_alias>>
    /\ file_state' = IF ok THEN "json" ELSE file_state
    /\ variant \in {"linux", "windows"} /\ phase \in {"run", "quitting"}
    /\ pending_timers > 0
    /\ pending_timers' = pending_timers - 1
    /\ save_timer' = FALSE
    /\ persisted' = IF ok THEN Written(cfg) ELSE persisted
    /\ effects' = {"save_config"} \cup (IF ok THEN {} ELSE {"write_failed"})
    /\ UNCHANGED <<cfg, aliased, widgets, visible, favorites, fav_file,
                   tray_favs, tkq>>
    /\ UNCHANGED ovars /\ UNCHANGED <<tray_mode, msgq>> /\ NoRedraw
    /\ Frozen

DoSave == DoSaveIO(TRUE)

(* on_delete / _on_close: the settings window is closed. *)
OnDelete ==
    /\ thread' = UiThread /\ UiThread \notin Saving /\ ~TkBusy
    /\ UNCHANGED <<pvars, wvars, hvars>>
    /\ UNCHANGED <<in_save, torn, fav_alias>>
    /\ phase \in {"run", "quitting"} /\ (variant # "windows" => phase = "run")
    /\ visible
    /\ visible' = FALSE
    /\ IF variant # "root" /\ save_timer
       THEN /\ pending_timers' = pending_timers - 1
            /\ save_timer' = FALSE
            /\ persisted' = Written(cfg)
            /\ file_state' = "json"
            /\ effects' = {"cancel_timer", "save_config", "hide_settings"}
       ELSE /\ UNCHANGED <<pending_timers, save_timer, persisted,
                           file_state>>
            /\ effects' = {"hide_settings"}
    /\ UNCHANGED <<cfg, aliased, widgets, favorites, fav_file, tray_favs,
                   tkq>>
    /\ UNCHANGED ovars /\ UNCHANGED <<tray_mode, msgq>> /\ NoRedraw
    /\ Frozen

(* TrayIcon.on_quit: Gtk.main_quit() ends the loop at once; on windows the *)
(* tray icon stops and WM_APP_QUIT is posted.                              *)
TrayOnQuit ==
    /\ thread' = TrayThread /\ TrayThread \notin Saving /\ UNCHANGED tvars
    /\ UNCHANGED <<pvars, wvars, hvars>>
    /\ phase = "run"
    /\ IF variant = "windows"
       THEN /\ Len(msgq) < MaxQueue
            /\ msgq' = Append(msgq, "quit")
            /\ phase' = "quitting"
            /\ effects' = {"post_message"}
       ELSE /\ phase' = "exited"
            /\ effects' = {"main_quit"}
            /\ UNCHANGED msgq
    /\ UNCHANGED ovars /\ UNCHANGED tray_mode /\ NoRedraw
    /\ UNCHANGED <<variant, ov_cfg>> /\ UNCHANGED svars

(* on_settings that only shows the window. *)
TrayOnSettings_NoModeSwitch ==
    /\ thread' = TrayThread /\ TrayThread \notin Saving /\ UNCHANGED tvars
    /\ UNCHANGED <<pvars, wvars, hvars>>
    /\ phase = "run"
    /\ IF variant = "windows"
       THEN /\ Len(tkq) < MaxTkQueue
            /\ cfg' = ov_cfg
            /\ aliased' = TRUE
            /\ tkq' = Append(tkq, "do_show")
            /\ UNCHANGED visible
       ELSE /\ visible' = TRUE
            /\ UNCHANGED <<cfg, aliased, tkq>>
    /\ UNCHANGED ovars /\ UNCHANGED <<tray_mode, msgq>> /\ NoRedraw
    /\ effects' = {"show_settings"}
    /\ UNCHANGED <<widgets, save_timer, pending_timers, persisted,
                   favorites, fav_file, tray_favs>>
    /\ Frozen

(* TrayIcon.on_settings *)
TrayOnSettings ==
    /\ thread' = TrayThread /\ TrayThread \notin Saving /\ UNCHANGED tvars
    /\ UNCHANGED <<pvars, wvars, hvars>>
    /\ phase = "run"
    /\ IF variant = "windows"
       THEN /\ Len(tkq) < MaxTkQueue
            /\ IF tray_mode # "crosshair"
               THEN /\ Len(msgq) < MaxQueue
                    /\ tray_mode' = "crosshair"
                    /\ msgq' = Append(msgq, "mode0")
                    /\ effects' = {"post_message", "show_settings"}
               ELSE /\ UNCHANGED <<tray_mode, msgq>>
                    /\ effects' = {"show_settings"}
            /\ cfg' = ov_cfg
            /\ aliased' = TRUE
            /\ tkq' = Append(tkq, "do_show")
            /\ UNCHANGED ovars /\ NoRedraw
            /\ UNCHANGED visible
       ELSE /\ IF variant = "linux" /\ mode # "crosshair"
                  /\ tray_mode # "crosshair"
               THEN /\ SetMode("crosshair", "crosshair")
                    /\ effects' = SetModeFx("crosshair")
                                    \cup {"show_settings"}
               ELSE /\ UNCHANGED ovars /\ UNCHANGED tray_mode /\ NoRedraw
                    /\ effects' = {"show_settings"}
            /\ visible' = TRUE
            /\ UNCHANGED <<msgq, cfg, aliased, tkq>>
    /\ UNCHANGED <<widgets, save_timer, pending_timers, persisted,
                   favorites, fav_file, tray_favs>>
    /\ Frozen

(* windows SettingsWindow._do_show, run by the tk loop *)
TkDoShow ==
    /\ thread' = UiThread /\ UiThread \notin Saving /\ ~TkBusy /\ UNCHANGED tvars
    /\ UNCHANGED <<pvars, wvars, hvars>>
    /\ variant = "windows" /\ phase \in {"run", "quitting"}
    /\ tkq # <<>> /\ Head(tkq) = "do_show"
    /\ tkq' = Tail(tkq)
    /\ widgets' = WidgetsOf(variant, cfg)
    /\ visible' = TRUE
    /\ effects' = {"show_settings"}
    /\ UNCHANGED <<cfg, aliased, save_timer, pending_timers, persisted,
                   favorites, fav_file, tray_favs>>
    /\ UNCHANGED ovars /\ UNCHANGED <<tray_mode, msgq>> /\ NoRedraw
    /\ Frozen

(***************************************************************************)
(* Favorites store.                                                        *)
(***************************************************************************)
Put_KeepExisting(favs, name, c) ==
    [n \in (DOMAIN favs) \cup {name} |-> IF n \in DOMAIN favs THEN favs[n] ELSE c]

Put(favs, name, c) ==
    [n \in (DOMAIN favs) \cup {name} |-> IF n = name THEN c ELSE favs[n]]

Pop_ClearsAll(favs, name) ==
    [n \in (DOMAIN favs) \ (DOMAIN favs) |-> favs[n]]

Pop(favs, name) == [n \in (DOMAIN favs) \ {name} |-> favs[n]]

(* _save_favorite / _delete_favorite after the dict operation: the map is  *)
(* written by save_favorites (ok: the write succeeds; an OSError is caught *)
(* and reported), then the window's list and the tray's submenu are        *)
(* rebuilt from the map.                                                   *)
StoreFavorites_NoCallback(favs, ok, call) ==
    /\ thread' = UiThread /\ UiThread \notin Saving
    /\ UNCHANGED <<pvars, wvars>>
    /\ UNCHANGED <<in_save, torn, file_state>>
    /\ favorites' = favs
    /\ fav_file' = IF ok THEN [n \in DOMAIN favs |-> Written(favs[n])]
                          ELSE fav_file
    /\ UNCHANGED tray_favs
    /\ effects' = {call, "save_favorites"}
                  \cup (IF ok THEN {} ELSE {"write_failed"})
    /\ UNCHANGED <<cfg, aliased, widgets, visible, save_timer,
                   pending_timers, persisted, tkq>>
    /\ UNCHANGED ovars /\ UNCHANGED <<tray_mode, msgq>> /\ NoRedraw
    /\ Frozen

StoreFavorites(favs, ok, call) ==
    /\ thread' = UiThread /\ UiThread \notin Saving
    /\ UNCHANGED <<pvars, wvars>>
    /\ UNCHANGED <<in_save, torn, file_state>>
    /\ favorites' = favs
    /\ fav_file' = IF ok THEN [n \in DOMAIN favs |-> Written(favs[n])]
                          ELSE fav_file
    /\ tray_favs' = DOMAIN favs
    /\ effects' = {call, "save_favorites", "favorites_changed"}
                  \cup (IF ok THEN {} ELSE {"write_failed"})
    /\ UNCHANGED <<cfg, aliased, widgets, visible, save_timer,
                   pending_timers, persisted, tkq>>
    /\ UNCHANGED ovars /\ UNCHANGED <<tray_mode, msgq>> /\ NoRedraw
    /\ Frozen

SaveFavorite_NoCopy(name, ok) ==
    /\ variant \in {"linux", "windows"}
    /\ phase \in {"run", "quitting"} /\ (variant = "linux" => phase = "run")
    /\ visible
    /\ fav_alias' = fav_alias \cup {name}
    /\ snapshots' = Put(snapshots, name, cfg)
    /\ StoreFavorites(Put(favorites, name, cfg), ok, "set_favorite")

SaveFavorite(name, ok) ==
    /\ variant \in {"linux", "windows"}
    /\ phase \in {"run", "quitting"} /\ (variant = "linux" => phase = "run")
    /\ visible
    /\ fav_alias' = fav_alias \ {name}
    /\ snapshots' = Put(snapshots, name, cfg)
    /\ StoreFavorites(Put(favorites, name, cfg), ok, "set_favorite")

DeleteFavorite(name, ok) ==
    /\ variant \in {"linux", "windows"}
    /\ phase \in {"run", "quitting"} /\ (variant = "linux" => phase = "run")
    /\ visible
    /\ fav_alias' = fav_alias \ {name}
    /\ snapshots' = Pop(snapshots, name)
    /\ StoreFavorites(Pop(favorites, name), ok, "pop_favorite")

(* linux SettingsWindow.load_favorite; the change signals raised by        *)
(* _update_widgets_from_cfg return at the _loading guard.                  *)
LoadFavorite_AlwaysSchedules(name) ==
    /\ thread' = "main" /\ UNCHANGED tvars
    /\ UNCHANGED <<pvars, wvars, hvars>>
    /\ variant = "linux" /\ phase = "run"
    /\ IF name \notin DOMAIN favorites
       THEN /\ effects' = {"load_favorite", "schedule_save"}
            /\ pending_timers' = ScheduleSave(save_timer, pending_timers)
            /\ save_timer' = TRUE
            /\ UNCHANGED <<cfg, widgets, ov_cfg, aliased, draw_queued,
                           favorites>>
       ELSE /\ cfg' = Update(cfg, favorites[name])
            /\ widgets' = WidgetsOf(variant, cfg')
            /\ ApplySettings(cfg')
            /\ draw_queued' = TRUE
            /\ pending_timers' = ScheduleSave(save_timer, pending_timers)
            /\ save_timer' = TRUE
            /\ favorites' = WriteThrough(cfg')
            /\ effects' = {"load_favorite", "apply_settings", "queue_draw",
                           "schedule_save"}
    /\ UNCHANGED <<visible, persisted, fav_file, tray_favs, tkq>>
    /\ UNCHANGED ovars /\ UNCHANGED <<tray_mode, msgq, frame>>
    /\ UNCHANGED <<variant, phase>>

(* no _loading guard: the check box and the spin button, set one after the *)
(* other, each run on_change when their value changes                      *)
LoadFavorite_NoLoadingGuard(name) ==
    /\ thread' = "main" /\ UNCHANGED tvars
    /\ UNCHANGED <<pvars, wvars, hvars>>
    /\ variant = "linux" /\ phase = "run"
    /\ IF name \notin DOMAIN favorites
       THEN /\ effects' = {"load_favorite"}
            /\ UNCHANGED <<cfg, widgets, ov_cfg, aliased, draw_queued,
                           pending_timers, save_timer, favorites>>
       ELSE /\ LET merged == Update(cfg, favorites[name])
                   w1 == [widgets EXCEPT !.tick_enabled = merged.tick_enabled]
                   c1 == IF w1 # widgets THEN Update(merged, w1) ELSE merged
                   w2 == [w1 EXCEPT
                            !.tick_spacing = ClampSpin(c1.tick_spacing)]
                   c2 == IF w2 # w1 THEN Update(c1, w2) ELSE c1
               IN cfg' = c2 /\ widgets' = w2
            /\ ApplySettings(cfg')
            /\ draw_queued' = TRUE
            /\ pending_timers' = ScheduleSave(save_timer, pending_timers)
            /\ save_timer' = TRUE
            /\ favorites' = WriteThrough(cfg')
            /\ effects' = {"load_favorite", "apply_settings", "queue_draw",
                           "schedule_save"}
    /\ UNCHANGED <<visible, persisted, fav_file, tray_favs, tkq>>
    /\ UNCHANGED ovars /\ UNCHANGED <<tray_mode, msgq, frame>>
    /\ UNCHANGED <<variant, phase>>

LoadFavorite(name) ==
    /\ thread' = "main" /\ UNCHANGED tvars
    /\ UNCHANGED <<pvars, wvars, hvars>>
    /\ variant = "linux" /\ phase = "run"
    /\ IF name \notin DOMAIN favorites
       THEN /\ effects' = {"load_favorite"}
            /\ UNCHANGED <<cfg, widgets, ov_cfg, aliased, draw_queued,
                           pending_timers, save_timer, favorites>>
       ELSE /\ cfg' = Update(cfg, favorites[name])
            /\ widgets' = WidgetsOf(variant, cfg')
            /\ ApplySettings(cfg')
            /\ draw_queued' = TRUE
            /\ pending_timers' = ScheduleSave(save_timer, pending_timers)
            /\ save_timer' = TRUE
            /\ favorites' = WriteThrough(cfg')
            /\ effects' = {"load_favorite", "apply_settings", "queue_draw",
                           "schedule_save"}
    /\ UNCHANGED <<visible, persisted, fav_file, tray_favs, tkq>>
    /\ UNCHANGED ovars /\ UNCHANGED <<tray_mode, msgq, frame>>
    /\ UNCHANGED <<variant, phase>>

(* windows SettingsWindow.load_favorite, called by the tray thread or the  *)
(* tk thread: apply_settings and save_config are called directly.          *)
LoadFavoriteWin(name) ==
    /\ variant = "windows" /\ phase \in {"run", "quitting"}
    /\ thread' \in {"tray"} \cup (IF visible THEN {"tk"} ELSE {})
    /\ UNCHANGED <<pvars, wvars, hvars>>
    /\ UNCHANGED <<in_save, torn, fav_alias>>
    /\ IF name \notin DOMAIN favorites
       THEN /\ effects' = {"load_favorite"}
            /\ UNCHANGED <<cfg, ov_cfg, aliased, persisted, tkq, frame,
                           favorites, file_state>>
       ELSE /\ Len(tkq) < MaxTkQueue
            /\ cfg' = Update(cfg, favorites[name])
            /\ ApplySettings(cfg')
            /\ frame' = Render(variant, active, mode, cfg',
                               measure_start, measure_end)
            /\ persisted' = Written(cfg')
            /\ file_state' = "json"
            /\ tkq' = Append(tkq, "update_widgets")
            /\ favorites' = WriteThrough(cfg')
            /\ effects' = {"load_favorite", "apply_settings", "redraw",
                           "save_config"}
    /\ UNCHANGED <<widgets, visible, save_timer, pending_timers, fav_file,
                   tray_favs>>
    /\ UNCHANGED ovars /\ UNCHANGED <<tray_mode, msgq, draw_queued>>
    /\ UNCHANGED <<variant, phase>>

(* windows SettingsWindow._update_widgets_from_cfg, run by the tk loop *)
TkUpdateWidgets ==
    /\ thread' = UiThread /\ UiThread \notin Saving /\ ~TkBusy /\ UNCHANGED tvars
    /\ UNCHANGED <<pvars, wvars, hvars>>
    /\ variant = "windows" /\ phase \in {"run", "quitting"}
    /\ tkq # <<>> /\ Head(tkq) = "update_widgets"
    /\ Len(msgq) < MaxQueue
    /\ tkq' = Tail(tkq)
    /\ widgets' = WidgetsOf(variant, cfg)
    /\ msgq' = Append(msgq, "settings")
    /\ pending_timers' = ScheduleSave(save_timer, pending_timers)
    /\ save_timer' = TRUE
    /\ effects' = {"post_message", "schedule_save"}
    /\ UNCHANGED <<cfg, aliased, visible, persisted, favorites, fav_file,
                   tray_favs>>
    /\ UNCHANGED ovars /\ UNCHANGED tray_mode /\ NoRedraw
    /\ Frozen

(***************************************************************************)
(* The windows threads at the granularity of save_config: a handler that   *)
(* persists enters save_config in one step and returns from it in another, *)
(* so that the tk thread and the pystray thread interleave.  Two writers   *)
(* of the file, or a record changed while it is serialised, leave either   *)
(* the record's JSON or malformed text in the file.                        *)
(***************************************************************************)
(* _do_save on the tk thread, up to the call of save_config *)
TkDoSaveEnter ==
    /\ variant = "windows" /\ phase \in {"run", "quitting"}
    /\ thread' = "tk" /\ "tk" \notin Saving
    /\ UNCHANGED <<pvars, wvars, hvars>>
    /\ pending_timers > 0
    /\ pending_timers' = pending_timers - 1
    /\ save_timer' = FALSE
    /\ in_save' = in_save \cup {<<"tk", "do_save">>}
    /\ torn' = (torn \/ in_save # {})
    /\ effects' = {}
    /\ UNCHANGED <<cfg, aliased, widgets, visible, persisted, favorites,
                   fav_file, tray_favs, tkq, file_state, fav_alias>>
    /\ UNCHANGED ovars /\ UNCHANGED <<tray_mode, msgq>> /\ NoRedraw
    /\ Frozen

(* load_favorite on the calling thread, up to the call of save_config *)
LoadFavoriteEnter(name) ==
    /\ variant = "windows" /\ phase \in {"run", "quitting"}
    /\ thread' \in {"tray"} \cup (IF visible THEN {"tk"} ELSE {})
    /\ UNCHANGED <<pvars, wvars, hvars>>
    /\ thread' \notin Saving
    /\ UNCHANGED <<pvars, wvars, hvars>>
    /\ name \in DOMAIN favorites
    /\ cfg' = Update(cfg, favorites[name])
    /\ ApplySettings(cfg')
    /\ frame' = Render(variant, active, mode, cfg',
                       measure_start, measure_end)
    /\ in_save' = in_save \cup {<<thread', "load_favorite">>}
    /\ torn' = (torn \/ in_save # {})
    /\ favorites' = WriteThrough(cfg')
    /\ effects' = {"load_favorite", "apply_settings", "redraw"}
    /\ UNCHANGED <<widgets, visible, save_timer, pending_timers, persisted,
                   fav_file, tray_favs, tkq, file_state, fav_alias>>
    /\ UNCHANGED ovars /\ UNCHANGED <<tray_mode, msgq, draw_queued>>
    /\ UNCHANGED <<variant, phase>>

(* save_config returns to handler e[2] on thread e[1]; load_favorite then  *)
(* queues _update_widgets_from_cfg on the tk loop.                         *)
SaveConfigReturn(e) ==
    /\ variant = "windows" /\ phase \in {"run", "quitting"}
    /\ e \in in_save
    /\ thread' = e[1]
    /\ UNCHANGED <<pvars, wvars, hvars>>
    /\ in_save' = in_save \ {e}
    /\ torn' = (torn /\ in_save' # {})
    /\ IF torn
       THEN \/ file_state' = "json" /\ persisted' = Written(cfg)
            \/ file_state' = "malformed" /\ UNCHANGED persisted
       ELSE file_state' = "json" /\ persisted' = Written(cfg)
    /\ IF e[2] = "load_favorite"
       THEN /\ Len(tkq) < MaxTkQueue
            /\ tkq' = Append(tkq, "update_widgets")
       ELSE UNCHANGED tkq
    /\ effects' = {"save_config"}
    /\ UNCHANGED <<cfg, aliased, widgets, visible, save_timer,
                   pending_timers, favorites, fav_file, tray_favs,
                   fav_alias>>
    /\ UNCHANGED ovars /\ UNCHANGED <<tray_mode, msgq>> /\ NoRedraw
    /\ Frozen

SaveCalls == {"tk", "tray"} \X {"do_save", "load_favorite"}

(***************************************************************************)
(* Inputs of the handlers.                                                 *)
(***************************************************************************)
Buttons == {1, 3}
Keys == {VK_ESCAPE, VK_CONTROL}
Edits == {<<"tick_enabled", TRUE>>, <<"tick_enabled", FALSE>>}
         \cup {<<"tick_spacing", sp>> : sp \in SpinSpacings}

NextOverlay ==
    \/ \E p \in Points, b \in Buttons : OnButtonPress(p, b)
    \/ \E p \in Points, c \in BOOLEAN, b \in Buttons : OnButtonRelease(p, c, b)
    \/ \E p \in Points, c \in BOOLEAN : OnMotionNotify(p, c)
    \/ \E k \in Keys : OnKeyPress(k)
    \/ \E p \in Points : PollPointer(p)
    \/ OnDraw
    \/ \E p \in Points : WmTimer(p)
    \/ \E p \in Points : WmLButtonDown(p)
    \/ \E p \in Points, c \in BOOLEAN : WmMouseMove(p, c)
    \/ \E p \in Points, c \in BOOLEAN : WmLButtonUp(p, c)
    \/ \E k \in Keys : WmKeyDown(k)
    \/ WmAppMode
    \/ TrayOnToggle
    \/ \E m \in Modes : TrayOnModeChanged(m)
    \/ \E m \in Modes : TrayOnMode(m)

NextSettings ==
    \/ \E e \in Edits : OnChange(e[1], e[2])
    \/ \E e \in Edits : OnChangeRoot(e[1], e[2])
    \/ \E e \in Edits : TkOnChange(e[1], e[2])
    \/ DoSave
    \/ OnDelete
    \/ TrayOnQuit
    \/ TrayOnSettings
    \/ TkDoShow
    \/ WmAppSettings
    \/ WmAppQuit
    \/ OnDraw
    \/ \E n \in FavNames : SaveFavorite(n, TRUE)
    \/ \E n \in FavNames : DeleteFavorite(n, TRUE)
    \/ \E n \in FavNames : LoadFavorite(n)
    \/ \E n \in FavNames : LoadFavoriteWin(n)
    \/ TkUpdateWidgets

(* The favorites store (linux and windows), with the tick check box as the *)
(* one control that is edited.                                             *)
FavEdits == {e \in Edits : e[1] = "tick_enabled"}

NextFavorites ==
    \/ TrayOnSettings
    \/ TkDoShow
    \/ \E e \in FavEdits : OnChange(e[1], e[2])
    \/ \E e \in FavEdits : TkOnChange(e[1], e[2])
    \/ WmAppSettings
    \/ DoSave
    \/ \E n \in StoreNames, ok \in BOOLEAN : SaveFavorite(n, ok)
    \/ \E n \in StoreNames, ok \in BOOLEAN : DeleteFavorite(n, ok)
    \/ \E n \in StoreNames : LoadFavorite(n)
    \/ \E n \in StoreNames : LoadFavoriteWin(n)
    \/ TkUpdateWidgets

(* Favorites saved in this run next to one the favorites file held at the  *)
(* start: any JSON object, with or without a key the program does not      *)
(* know.                                                                   *)
FileFavorites ==
    {NoFavorites} \cup {[n \in {MaxStoreFavs} |-> o] : o \in FileObjects}

NextRestore ==
    \/ TrayOnSettings
    \/ TkDoShow
    \/ \E e \in FavEdits : OnChange(e[1], e[2])
    \/ \E e \in FavEdits : TkOnChange(e[1], e[2])
    \/ WmAppSettings
    \/ \E n \in FavNames : SaveFavorite(n, TRUE)
    \/ \E n \in StoreNames : LoadFavorite(n)
    \/ \E n \in StoreNames : LoadFavoriteWin(n)
    \/ TkUpdateWidgets

(* Start of the program and the edits and saves that follow. *)
NextConfig ==
    \/ \E ok \in BOOLEAN : Main(ok)
    \/ TrayOnSettings
    \/ TkDoShow
    \/ \E e \in Edits : OnChange(e[1], e[2])
    \/ \E e \in Edits, ok \in BOOLEAN : OnChangeRootIO(e[1], e[2], ok)
    \/ \E e \in Edits : TkOnChange(e[1], e[2])
    \/ WmAppSettings
    \/ \E ok \in BOOLEAN : DoSaveIO(ok)

NextThreads ==
    \/ TrayOnSettings
    \/ TkDoShow
    \/ \E e \in Edits : TkOnChange(e[1], e[2])
    \/ WmAppSettings
    \/ \E n \in FavNames : SaveFavorite(n, TRUE)
    \/ TkUpdateWidgets
    \/ TkDoSaveEnter
    \/ \E n \in FavNames : LoadFavoriteEnter(n)
    \/ \E e \in SaveCalls : SaveConfigReturn(e)

(***************************************************************************)
(* The tick section of _draw_crosshair statement by statement: the guard,  *)
(* the reads of the locals (sp, maj, labels) and one action per evaluation *)
(* of a while condition.  The settings are read from the overlay's record: *)
(* attributes set by apply_settings on GTK; on windows the dict cfg, which *)
(* the tk thread writes while the overlay draws once on_settings has       *)
(* shared it (the GDI+ calls between the guard and the reads release the   *)
(* interpreter lock).                                                      *)
(***************************************************************************)
(* "if tick_enabled and tick_spacing >= 5" *)
DrawTicksGuard ==
    /\ call_args.fn = "draw_crosshair"
    /\ tick_loop.pc = "idle"
    /\ tick_loop' = [tick_loop EXCEPT
                       !.pc = IF TicksOn(ov_cfg) THEN "guarded" ELSE "done"]
    /\ thread' = "main"
    /\ effects' = {"draw"}
    /\ UNCHANGED <<call_args, call_result>>
    /\ UNCHANGED <<variant, phase, tray_mode, msgq, frame, draw_queued,
                   ov_cfg>>
    /\ UNCHANGED ovars /\ UNCHANGED svars /\ UNCHANGED tvars
    /\ UNCHANGED <<wvars, hvars>>

(* "sp = tick_spacing" .. "labels = tick_labels"; "i = 1; dist = sp" *)
DrawTicksReadLocals ==
    /\ call_args.fn = "draw_crosshair"
    /\ tick_loop.pc = "guarded"
    /\ tick_loop' = [pc |-> "h", i |-> 1, sp |-> ov_cfg.tick_spacing,
                     maj |-> ov_cfg.tick_major_every,
                     labels |-> ov_cfg.tick_labels]
    /\ thread' = "main"
    /\ effects' = {"draw"}
    /\ UNCHANGED <<call_args, call_result>>
    /\ UNCHANGED <<variant, phase, tray_mode, msgq, frame, draw_queued,
                   ov_cfg>>
    /\ UNCHANGED ovars /\ UNCHANGED svars /\ UNCHANGED tvars
    /\ UNCHANGED <<wvars, hvars>>

(* one evaluation of "while mx + dist <= h_right or mx - dist >= h_left"   *)
(* (or of the vertical loop's condition) and, when it holds, the body      *)
DrawTicksStep ==
    /\ call_args.fn = "draw_crosshair"
    /\ tick_loop.pc \in {"h", "v"}
    /\ tick_loop.i <= MaxTickIter
    /\ LET horizontal == tick_loop.pc = "h"
           center == IF horizontal THEN call_args.mx ELSE call_args.my
           range == AxisRange(ov_cfg, center,
                              IF horizontal THEN TickScreenW ELSE TickScreenH)
           lo == range[1]
           hi == range[2]
           dist == tick_loop.i * tick_loop.sp
           is_major == IsMajor(tick_loop.i, tick_loop.maj)
       IN IF center + dist <= hi \/ center - dist >= lo
          THEN /\ call_result' =
                     call_result
                     \o AxisTick(tick_loop.pc, center + dist, lo, hi, dist,
                                 is_major, tick_loop.labels)
                     \o AxisTick(tick_loop.pc, center - dist, lo, hi, dist,
                                 is_major, tick_loop.labels)
               /\ tick_loop' = [tick_loop EXCEPT !.i = tick_loop.i + 1]
          ELSE /\ UNCHANGED call_result
               /\ tick_loop' = [tick_loop EXCEPT
                                  !.pc = IF horizontal THEN "v" ELSE "done",
                                  !.i = 1]
    /\ thread' = "main"
    /\ effects' = {"draw"}
    /\ UNCHANGED call_args
    /\ UNCHANGED <<variant, phase, tray_mode, msgq, frame, draw_queued,
                   ov_cfg>>
    /\ UNCHANGED ovars /\ UNCHANGED svars /\ UNCHANGED tvars
    /\ UNCHANGED <<wvars, hvars>>

(* Settings and pointer positions of the study: the pointer left of the    *)
(* window, inside it and right of it.                                      *)
LoopCfgs ==
    [crosshair_fullscreen : BOOLEAN,
     crosshair_radius : {12},
     tick_enabled : BOOLEAN,
     tick_spacing : {0, MinTickSpacing - 1, MinTickSpacing,
                     DefaultTickSpacing},
     tick_major_every : {2},
     tick_labels : {TRUE}]

LoopCalls ==
    { [fn |-> "draw_crosshair", mx |-> x, my |-> TickScreenH \div 2] :
        x \in {-3, 7, TickScreenW + 3} }

(* values typed into the Spacing spin box and confirmed with Return *)
TypedSpacings == {0, DefaultTickSpacing}

DrawTicks == DrawTicksGuard \/ DrawTicksReadLocals \/ DrawTicksStep

NextTickLoop ==
    \/ DrawTicksGuard
    \/ DrawTicksReadLocals
    \/ DrawTicksStep
    \/ \E v \in TypedSpacings : TkOnChange("tick_spacing", v)

(* The windows overlay redrawing on its timer while the tk thread edits. *)
NextFrames ==
    \/ TrayOnSettings
    \/ TkDoShow
    \/ \E v \in SpinSpacings : TkSpinTyped(v)
    \/ \E e \in Edits : TkOnChangeEnter(e[1], e[2])
    \/ TkOnChangeWrite
    \/ \E p \in Points : WmTimer(p)
    \/ WmAppSettings
    \/ DoSave

(***************************************************************************)
(* The drawing helpers called on their own, with arguments fixed at the    *)
(* start.                                                                  *)
(***************************************************************************)
InitPure ==
    /\ call_args \in AxisCalls \cup RulerCalls \cup SnapCalls
    /\ call_result = <<>>
    /\ tick_loop = NoLoop
    /\ on_change_keys = <<>>
    /\ on_change_cfg = DEFAULTS
    /\ snapshots = NoFavorites
    /\ variant = "linux"
    /\ phase = "run"
    /\ file_state = "json"
    /\ persisted = DEFAULTS
    /\ cfg = DEFAULTS
    /\ ov_cfg = DEFAULTS
    /\ widgets = WidgetsOf(variant, DEFAULTS)
    /\ active = TRUE
    /\ mode = "crosshair"
    /\ mpos = <<(ScreenW \div 2) * SubPx, (ScreenH \div 2) * SubPx>>
    /\ measure_start = None
    /\ measure_end = None
    /\ measuring = FALSE
    /\ capture = FALSE
    /\ click_through = TRUE
    /\ accept_focus = FALSE
    /\ cursor = "default"
    /\ tray_mode = "crosshair"
    /\ msgq = <<>>
    /\ frame = <<>>
    /\ draw_queued = TRUE
    /\ effects = {}
    /\ aliased = FALSE
    /\ visible = FALSE
    /\ save_timer = FALSE
    /\ pending_timers = 0
    /\ favorites = NoFavorites
    /\ fav_file = NoFavorites
    /\ tray_favs = {}
    /\ tkq = <<>>
    /\ thread = "main"
    /\ in_save = {}
    /\ torn = FALSE
    /\ fav_alias = {}

PureFrame ==
    /\ UNCHANGED <<variant, phase, tray_mode, msgq, frame, draw_queued,
                   ov_cfg, thread, call_args, tick_loop>>
    /\ UNCHANGED ovars /\ UNCHANGED svars /\ UNCHANGED tvars
    /\ UNCHANGED <<wvars, hvars>>

CallAxisTicks ==
    /\ call_args.fn = "axis_ticks"
    /\ "axis_ticks" \notin effects
    /\ call_result' = CrosshairTicks(call_args.c, call_args.mx, call_args.my,
                                     TickScreenW, TickScreenH)
    /\ effects' = {"axis_ticks"}
    /\ PureFrame

CallMeasurementTicks ==
    /\ call_args.fn = "measurement_ticks"
    /\ "measurement_ticks" \notin effects
    /\ call_result' = RulerTicks(call_args.c, call_args.ms, call_args.me)
    /\ effects' = {"measurement_ticks"}
    /\ PureFrame

(* _snap_endpoint, and once more on the point it returned *)
CallSnapEndpoint ==
    /\ call_args.fn = "snap_endpoint"
    /\ Len(call_result) < 2
    /\ call_result' =
          Append(call_result,
                 SnapEndpoint(call_args.p1,
                              IF Len(call_result) = 0 THEN call_args.p2
                              ELSE call_result[1]))
    /\ effects' = {"snap_endpoint"}
    /\ PureFrame

NextPure ==
    \/ CallAxisTicks
    \/ CallMeasurementTicks
    \/ CallSnapEndpoint

SpecPure == InitPure /\ [][NextPure]_vars

Next == NextOverlay

Spec == Init /\ [][Next]_vars

SpecSettings == Init /\ [][NextSettings]_vars

InitThreads == Init /\ variant = "windows"

(* linux and windows started from a config file with the default spacing *)
InitFavorites ==
    /\ Init
    /\ variant \in {"linux", "windows"}
    /\ cfg.tick_spacing = DefaultTickSpacing

SpecFavorites == InitFavorites /\ [][NextFavorites]_vars

InitRestore ==
    /\ variant \in {"linux", "windows"}
    /\ \E favs \in FileFavorites : InitWith(favs)

SpecRestore == InitRestore /\ [][NextRestore]_vars

SpecConfig == InitConfig /\ [][NextConfig]_vars

SpecThreads == InitThreads /\ [][NextThreads]_vars

SpecFrames == InitThreads /\ [][NextFrames]_vars

(* _draw_crosshair is running; on windows the settings window is open *)
InitTickLoop ==
    /\ call_args \in LoopCalls
    /\ call_result = <<>>
    /\ tick_loop = NoLoop
    /\ on_change_keys = <<>>
    /\ on_change_cfg = DEFAULTS
    /\ snapshots = NoFavorites
    /\ variant \in {"linux", "windows"}
    /\ phase = "run"
    /\ file_state = "json"
    /\ ov_cfg \in LoopCfgs
    /\ cfg = ov_cfg
    /\ persisted = ov_cfg
    /\ widgets = WidgetsOf(variant, ov_cfg)
    /\ aliased = (variant = "windows")
    /\ visible = (variant = "windows")
    /\ active = TRUE
    /\ mode = "crosshair"
    /\ mpos = <<0, 0>>
    /\ measure_start = None
    /\ measure_end = None
    /\ measuring = FALSE
    /\ capture = FALSE
    /\ click_through = TRUE
    /\ accept_focus = FALSE
    /\ cursor = "default"
    /\ tray_mode = "crosshair"
    /\ msgq = <<>>
    /\ frame = <<>>
    /\ draw_queued = FALSE
    /\ effects = {}
    /\ save_timer = FALSE
    /\ pending_timers = 0
    /\ favorites = NoFavorites
    /\ fav_file = NoFavorites
    /\ tray_favs = {}
    /\ tkq = <<>>
    /\ thread = "main"
    /\ in_save = {}
    /\ torn = FALSE
    /\ fav_alias = {}

(* the thread that draws keeps running *)
SpecTickLoop ==
    InitTickLoop /\ [][NextTickLoop]_vars /\ WF_vars(DrawTicks)

(***************************************************************************)
(* Properties.                                                             *)
(***************************************************************************)
Range(q) == {q[i] : i \in DOMAIN q}

ModeMsgPending == \E i \in DOMAIN msgq : msgq[i] \in {"mode0", "mode1"}

SettingsMsgPending == \E i \in DOMAIN msgq : msgq[i] = "settings"

(* C1: pointer capture is never held while measuring is false or the mode  *)
(* is crosshair: every path that ends a drag (button-up, mode switch from  *)
(* the tray, Escape) releases it.                                          *)
C1_CaptureReleasedOnExit == capture => (measuring /\ mode = "measure")

(* C2: in every reachable state the overlay window is click-through        *)
(* exactly when the mode is crosshair.                                     *)
C2_ClickThroughIffCrosshair == click_through <=> (mode = "crosshair")

(* back in crosshair mode after a measurement session, by set_mode *)
C2_Witness ==
    /\ mode = "crosshair" /\ click_through
    /\ {"set_mode", "set_click_through"} \subseteq effects

(* C3: whenever active is false, the frame that has been rendered holds no *)
(* draw command, in every mode, for every measurement state and settings.  *)
C3_InactiveFrameEmpty == (~active /\ ~draw_queued) => frame = <<>>

(* inactive in measure mode with a finished measurement, ticks enabled *)
C3_Witness ==
    /\ ~active /\ ~draw_queued /\ frame = <<>>
    /\ mode = "measure" /\ measure_start # None /\ measure_end # None
    /\ measure_start # measure_end
    /\ ov_cfg.tick_enabled /\ ov_cfg.tick_spacing >= MinTickSpacing

(* C7: a handler that calls set_mode(m) while the mode is already m makes  *)
(* no other call and changes no overlay state: no click-through, focus or  *)
(* cursor change, no reset of the measurement, no redraw, no notification. *)
C7_SetModeSameIsNoOp ==
    [][("set_mode" \in effects' /\ mode' = mode)
         => /\ effects' = {"set_mode"}
            /\ UNCHANGED ovars
            /\ UNCHANGED <<frame, draw_queued, tray_mode>>]_vars

(* set_mode("measure") was called during a drag and did nothing *)
C7_Witness ==
    /\ effects = {"set_mode"}
    /\ mode = "measure" /\ measuring /\ measure_start # None

(* C8: Escape in measure mode ends in crosshair mode with both endpoints   *)
(* unset and measuring false, drag or no drag; Escape in crosshair mode    *)
(* changes nothing.                                                        *)
C8_EscapeCancels ==
    [][(OnKeyPress(VK_ESCAPE) \/ WmKeyDown(VK_ESCAPE))
         => IF mode = "measure"
            THEN /\ mode' = "crosshair"
                 /\ measure_start' = None /\ measure_end' = None
                 /\ ~measuring'
            ELSE /\ UNCHANGED ovars
                 /\ UNCHANGED <<frame, draw_queued, tray_mode>>]_vars

(* windows: Escape has ended measure mode (the tray still says measure and *)
(* no message is in flight, so set_mode was not called for a tray request) *)
C8_Witness ==
    /\ variant = "windows" /\ msgq = <<>>
    /\ "set_mode" \in effects /\ "set_click_through" \in effects
    /\ mode = "crosshair" /\ tray_mode = "measure"
    /\ measure_start = None /\ measure_end = None /\ ~measuring

(* C9: right after any transition into measure mode both endpoints are     *)
(* unset and measuring is false.                                           *)
C9_EnterMeasureClean ==
    [][(mode # "measure" /\ mode' = "measure")
         => (measure_start' = None /\ measure_end' = None /\ ~measuring')]_vars

(* measure mode has just been entered again: the frame still on screen,   *)
(* about to be redrawn, is the one of an earlier measurement               *)
C9_Witness ==
    /\ mode = "measure" /\ "request_focus" \in effects
    /\ measure_start = None /\ measure_end = None /\ ~measuring
    /\ draw_queued /\ "line" \in Range(frame)

(* C10: once a mode transition has completed (no mode request in flight),  *)
(* the mode shown as selected in the tray menu equals the overlay's mode.  *)
C10_TrayShowsMode == ~ModeMsgPending => tray_mode = mode

(* C4: once the settings message of an edit has been processed, the        *)
(* settings the overlay renders with equal the record the settings UI      *)
(* edited.                                                                 *)
C4_OverlayHasEdits == ~SettingsMsgPending => ov_cfg = cfg

(* C5: at most one debounce timer is pending, a settings edit writes no    *)
(* config file (the write waits for the timer), and when the timer fires   *)
(* the file holds the in-memory record.                                    *)
C5_Debounced ==
    /\ [](pending_timers <= 1)
    /\ [][(\E e \in Edits : \/ OnChange(e[1], e[2])
                            \/ OnChangeRoot(e[1], e[2])
                            \/ TkOnChange(e[1], e[2]))
            => (persisted' = persisted /\ save_timer'
                /\ pending_timers' = 1)]_vars
    /\ [][DoSave => (persisted' = cfg' /\ ~save_timer')]_vars

(* C6: after the settings window was closed or the application has quit,   *)
(* no debounce timer is pending and the config file holds the record.      *)
C6_PersistedOnCloseOrQuit ==
    (phase = "exited" \/ "hide_settings" \in effects)
        => (~save_timer /\ pending_timers = 0 /\ persisted = cfg)

(* C11: in the threaded (windows) variant the overlay's state (active,     *)
(* mode, the settings it renders with) is written, and the frame is        *)
(* redrawn, only by handlers running on the overlay's message-loop thread. *)
C11_OnlyLoopThreadTouchesOverlay ==
    [][(/\ variant = "windows"
        /\ \/ active' # active
           \/ mode' # mode
           \/ ov_cfg' # ov_cfg
           \/ "redraw" \in effects')
         => thread' = "main"]_vars

(* C12: the settings record is changed and written to the config file by  *)
(* one thread only (the settings UI thread): two threads are never inside  *)
(* save_config together, and the record is not changed while another       *)
(* thread is serialising it.                                               *)
C12_OneThreadOwnsRecord ==
    /\ [](Cardinality(Saving) <= 1)
    /\ [][(cfg' # cfg) => (Saving \subseteq {thread'})]_vars
    /\ [][(cfg' # cfg \/ in_save' # in_save) => thread' = "tk"]_vars

(* C13: save(name) stores under name a snapshot equal to the settings      *)
(* record, replaces an entry of that name and leaves every other entry of  *)
(* the favorites map as it was.                                            *)
C13_SaveStoresSnapshot ==
    [][\A n \in StoreNames :
         (\E ok \in BOOLEAN : SaveFavorite(n, ok))
           => /\ DOMAIN favorites' = (DOMAIN favorites) \cup {n}
              /\ favorites'[n] = cfg
              /\ \A m \in (DOMAIN favorites) \ {n} :
                    favorites'[m] = favorites[m]]_vars

(* a favorite was just stored next to another one that holds other values *)
C13_Witness ==
    /\ "set_favorite" \in effects
    /\ \E n, m \in DOMAIN favorites :
          n # m /\ favorites[n] = cfg /\ favorites[m] # cfg

(* C14: delete(name) removes exactly the entry name when it is present and *)
(* leaves the map unchanged when it is absent; it completes normally and   *)
(* no other entry is affected.                                             *)
C14_DeleteRemovesOnlyName ==
    [][\A n \in StoreNames :
         (\E ok \in BOOLEAN : DeleteFavorite(n, ok))
           => /\ IF n \in DOMAIN favorites
                 THEN /\ DOMAIN favorites' = (DOMAIN favorites) \ {n}
                      /\ \A m \in DOMAIN favorites' :
                            favorites'[m] = favorites[m]
                 ELSE favorites' = favorites
              /\ phase' = phase]_vars

(* an entry was just deleted while another one stays; the write failed, so *)
(* the file still lists the deleted entry                                  *)
C14_Witness ==
    /\ {"pop_favorite", "write_failed"} \subseteq effects
    /\ favorites # NoFavorites
    /\ DOMAIN favorites \subseteq DOMAIN fav_file
    /\ DOMAIN favorites # DOMAIN fav_file
    /\ \A m \in DOMAIN favorites : favorites[m] = fav_file[m]

(* C15: when a favorites save or delete whose write succeeds has completed, *)
(* the favorites file holds the in-memory map, no debounce timer was       *)
(* involved, and the favorites-changed callback has rebuilt the tray's      *)
(* list to the key set of the map.                                         *)
C15_FileAndTrayFollowMap ==
    [][\A n \in StoreNames :
         (SaveFavorite(n, TRUE) \/ DeleteFavorite(n, TRUE))
           => /\ fav_file' = favorites'
              /\ tray_favs' = DOMAIN favorites'
              /\ "favorites_changed" \in effects'
              /\ UNCHANGED <<save_timer, pending_timers, persisted>>]_vars

(* two favorites stored and listed while a settings save is still pending *)
C15_Witness ==
    /\ "save_favorites" \in effects /\ "write_failed" \notin effects
    /\ fav_file = favorites /\ tray_favs = DOMAIN favorites
    /\ Cardinality(tray_favs) = MaxStoreFavs
    /\ save_timer /\ persisted # cfg

(* C16: a stored favorite is an independent copy: no settings edit and no  *)
(* load of a favorite changes the favorites map or the favorites file.     *)
C16_FavoriteIsIndependentCopy ==
    [][(\/ \E e \in Edits : \/ OnChange(e[1], e[2])
                            \/ TkOnChange(e[1], e[2])
        \/ \E n \in StoreNames : \/ LoadFavorite(n)
                                 \/ LoadFavoriteWin(n))
         => UNCHANGED <<favorites, fav_file>>]_vars

(* after an edit that followed save and load: the favorite that was loaded *)
(* no longer equals the record, and the file holds the map                 *)
C16_Witness ==
    /\ "schedule_save" \in effects /\ "load_favorite" \notin effects
    /\ ov_cfg \in {favorites[n] : n \in DOMAIN favorites}
    /\ cfg \notin {favorites[n] : n \in DOMAIN favorites}
    /\ fav_file = favorites

(* C17: loading a name that is not in the favorites map changes nothing:   *)
(* not the record, the overlay's settings, the widgets, the debounce timer, *)
(* the config file, the frame or the favorites.                            *)
C17_LoadAbsentIsNoOp ==
    [][\A n \in StoreNames :
         ((LoadFavorite(n) \/ LoadFavoriteWin(n)) /\ n \notin DOMAIN favorites)
           => UNCHANGED <<cfg, ov_cfg, aliased, widgets, save_timer,
                          pending_timers, persisted, frame, draw_queued,
                          favorites, fav_file, tray_favs, msgq, tkq>>]_vars

(* load of an absent name while another favorite exists and a save is      *)
(* pending                                                                 *)
C17_Witness ==
    /\ effects = {"load_favorite"}
    /\ favorites # NoFavorites
    /\ save_timer /\ persisted # cfg


(***************************************************************************)
(* C18: load_config returns the defaults overridden by the file: a key the *)
(* file lacks has its default, a key the file has keeps the file's value,  *)
(* a key the defaults do not know is kept in the record, and the next      *)
(* successful write of the record writes that key back to the file.        *)
(***************************************************************************)
C18_LoadIsDefaultsOverriddenByFile ==
    /\ [][\A ok \in BOOLEAN :
            (Main(ok) /\ file_state = "json" /\ phase' = "run") =>
                /\ DOMAIN cfg' = (DOMAIN DEFAULTS) \cup (DOMAIN persisted)
                /\ \A k \in DOMAIN persisted : cfg'[k] = persisted[k]
                /\ \A k \in (DOMAIN DEFAULTS) \ (DOMAIN persisted) :
                       cfg'[k] = DEFAULTS[k]]_vars
    /\ [][(phase = "run") => (DOMAIN cfg \subseteq DOMAIN cfg')]_vars
    /\ []( ( /\ phase = "run"
             /\ "save_config" \in effects
             /\ "write_failed" \notin effects )
           => \A k \in (DOMAIN cfg) \ (DOMAIN DEFAULTS) :
                  k \in DOMAIN persisted /\ persisted[k] = cfg[k] )

C18_Witness ==
    /\ phase = "run"
    /\ "load_config" \in effects
    /\ "write_failed" \in effects
    /\ file_state = "json"
    /\ DOMAIN persisted = {"tick_enabled", UnknownKey}
    /\ persisted.tick_enabled # DEFAULTS.tick_enabled
    /\ cfg.tick_enabled = persisted.tick_enabled
    /\ cfg.tick_spacing = DEFAULTS.tick_spacing
    /\ cfg[UnknownKey] = persisted[UnknownKey]

(***************************************************************************)
(* C19: after a successful save_config of a record made of the defaults    *)
(* and valid overrides, load_config of the file returns the same record.   *)
(***************************************************************************)
C19_SaveLoadRoundTrip ==
    ( /\ phase = "run"
      /\ "save_config" \in effects
      /\ "write_failed" \notin effects )
    => ( /\ ~LoadRaises(file_state)
         /\ LoadConfig(file_state, persisted) = cfg )

C19_Witness ==
    /\ phase = "run"
    /\ "save_config" \in effects
    /\ "load_config" \notin effects
    /\ "write_failed" \notin effects
    /\ cfg.tick_enabled # DEFAULTS.tick_enabled
    /\ cfg.tick_spacing # DEFAULTS.tick_spacing
    /\ UnknownKey \in DOMAIN cfg
    /\ LoadConfig(file_state, persisted) = cfg

(***************************************************************************)
(* C20: load_config never fails fatally: whatever the config file holds    *)
(* (no file, text that is not JSON, JSON of the wrong shape, a file that   *)
(* cannot be read), the program starts, and with the defaults unless the   *)
(* file holds a JSON object.                                               *)
(***************************************************************************)
C20_LoadNeverFatal ==
    [][Main(TRUE) =>
          /\ phase' = "run"
          /\ (file_state # "json" => cfg' = DEFAULTS)]_vars

(***************************************************************************)
(* C21: a failed write of the config file is logged and swallowed: the     *)
(* handler that asked for the write completes, the program goes on with    *)
(* the new settings in memory and in the overlay, and no retry is          *)
(* scheduled.                                                              *)
(***************************************************************************)
C21_WriteFailureSwallowed ==
    [][("write_failed" \in effects') =>
          /\ phase' = "run"
          /\ "raised" \notin effects'
          /\ pending_timers' <= pending_timers
          /\ ~save_timer']_vars

(***************************************************************************)
(* Readings of a helper's result.                                          *)
(***************************************************************************)
Called(fn) == call_args.fn = fn /\ fn \in effects

(* the tick marks drawn along axis a, and the centre and extent of a *)
AxisMarks(a) ==
    SelectSeq(call_result, LAMBDA r : r.op = "tick" /\ r.axis = a)

AxisCentre(a) == IF a = "h" THEN call_args.mx ELSE call_args.my

AxisExtent(a) ==
    AxisRange(call_args.c, AxisCentre(a),
              IF a = "h" THEN TickScreenW ELSE TickScreenH)

(* the tick marks and the labels drawn along a measurement *)
RulerMarks == SelectSeq(call_result, LAMBDA r : r.op = "tick")

RulerLabels == SelectSeq(call_result, LAMBDA r : r.op = "label")

(***************************************************************************)
(* C22: for spacing >= 5 and major_every > 0, the ticks drawn along an     *)
(* axis are symmetric around the centre whenever the range is symmetric    *)
(* around it, and the tick at index i (distance i * spacing) has the major *)
(* length exactly when i is a multiple of major_every.                     *)
(***************************************************************************)
C22_AxisTicksSymmetricAndMajor ==
    ( /\ Called("axis_ticks")
      /\ TicksOn(call_args.c)
      /\ call_args.c.tick_major_every > 0 )
    => \A a \in {"h", "v"} :
          LET m == AxisMarks(a)
              ctr == AxisCentre(a)
              ext == AxisExtent(a)
          IN /\ (ctr - ext[1] = ext[2] - ctr) =>
                    \A j \in DOMAIN m : \E k \in DOMAIN m :
                        /\ m[k].pos - ctr = ctr - m[j].pos
                        /\ m[k].major = m[j].major
             /\ \A j \in DOMAIN m :
                    m[j].major <=>
                        \E n \in 1..(ext[2] - ext[1]) :
                            /\ Abs(m[j].pos - ctr)
                                   = n * call_args.c.tick_major_every
                                       * call_args.c.tick_spacing

C22_Witness ==
    /\ Called("axis_ticks")
    /\ TicksOn(call_args.c)
    /\ call_args.c.tick_major_every = 2
    /\ ~call_args.c.crosshair_fullscreen
    /\ Len(AxisMarks("h")) >= 4
    /\ \E j \in DOMAIN AxisMarks("h") : AxisMarks("h")[j].major
    /\ \E j \in DOMAIN AxisMarks("h") : ~AxisMarks("h")[j].major

(***************************************************************************)
(* C23: along each axis the positions of the ticks drawn are exactly the   *)
(* points centre + i * spacing and centre - i * spacing, i >= 1, that lie  *)
(* in [lo, hi], each drawn once; for spacing 10, major_every 5, centre 0   *)
(* and range [-25, 25] the ticks are -20, -10, 10, 20 and none is major.   *)
(***************************************************************************)
C23_AxisTickPositions ==
    (Called("axis_ticks") /\ TicksOn(call_args.c))
    => /\ \A a \in {"h", "v"} :
            LET m == AxisMarks(a)
                ctr == AxisCentre(a)
                ext == AxisExtent(a)
            IN /\ \A x \in ext[1]..ext[2] :
                     (\E j \in DOMAIN m : m[j].pos = x)
                        <=> ( /\ x # ctr
                              /\ Abs(x - ctr) % call_args.c.tick_spacing = 0 )
               /\ \A j \in DOMAIN m : ext[1] <= m[j].pos /\ m[j].pos <= ext[2]
               /\ \A j, k \in DOMAIN m : m[j].pos = m[k].pos => j = k
       /\ ( /\ call_args.c.tick_spacing = 10
            /\ call_args.c.tick_major_every = 5
            /\ call_args.mx = 0
            /\ ~call_args.c.crosshair_fullscreen
            /\ call_args.c.crosshair_radius = 25 )
          => /\ {AxisMarks("h")[j].pos : j \in DOMAIN AxisMarks("h")}
                    = {-20, -10, 10, 20}
             /\ \A j \in DOMAIN AxisMarks("h") : ~AxisMarks("h")[j].major

C23_Witness ==
    /\ Called("axis_ticks")
    /\ call_args.c.tick_enabled
    /\ call_args.c.tick_spacing = 10
    /\ call_args.c.tick_major_every = 5
    /\ call_args.mx = 0
    /\ ~call_args.c.crosshair_fullscreen
    /\ call_args.c.crosshair_radius = 25
    /\ Len(AxisMarks("h")) = 4

(***************************************************************************)
(* C24: with tick_spacing below 5 no tick mark and no tick label is drawn, *)
(* along the crosshair and along a measurement alike, whatever the values  *)
(* of tick_enabled and tick_labels; ticks are drawn only when tick_enabled *)
(* is true and tick_spacing is at least 5.                                 *)
(***************************************************************************)
C24_NoTicksBelowFloor ==
    (Called("axis_ticks") \/ Called("measurement_ticks"))
    => /\ (call_args.c.tick_spacing < MinTickSpacing) => Len(call_result) = 0
       /\ (Len(call_result) > 0) =>
              (call_args.c.tick_enabled
                  /\ call_args.c.tick_spacing >= MinTickSpacing)

C24_Witness ==
    /\ Called("measurement_ticks")
    /\ call_args.c.tick_enabled
    /\ call_args.c.tick_labels
    /\ call_args.c.tick_major_every = 2
    /\ call_args.c.tick_spacing = MinTickSpacing - 1
    /\ call_args.ms = <<0, 0>>
    /\ call_args.me = <<100, 0>>
    /\ Len(call_result) = 0

(***************************************************************************)
(* C25: for a measurement of length L with ticks enabled and spacing       *)
(* s >= 5 the ticks are drawn at exactly the distances i * s from the      *)
(* start, i = 1 .. floor(L / s), none beyond the end point, and tick i is  *)
(* major exactly when major_every > 0 and i is a multiple of major_every.  *)
(***************************************************************************)
C25_RulerTicks ==
    ( /\ Called("measurement_ticks")
      /\ TicksOn(call_args.c)
      /\ call_args.ms # call_args.me )
    => LET m == RulerMarks
           s == call_args.c.tick_spacing
           maj == call_args.c.tick_major_every
           dx == call_args.me[1] - call_args.ms[1]
           dy == call_args.me[2] - call_args.ms[2]
           L2 == dx * dx + dy * dy
       IN /\ (Len(m) * s) * (Len(m) * s) <= L2
          /\ L2 < ((Len(m) + 1) * s) * ((Len(m) + 1) * s)
          /\ \A i \in DOMAIN m :
                /\ m[i].t = i * s
                /\ m[i].major <=>
                      (maj > 0 /\ \E n \in 1..Len(m) : i = n * maj)

C25_Witness ==
    /\ Called("measurement_ticks")
    /\ TicksOn(call_args.c)
    /\ call_args.c.tick_spacing = MinTickSpacing
    /\ call_args.c.tick_major_every = 2
    /\ call_args.ms = <<27, 36>>
    /\ call_args.me = <<0, 0>>
    /\ Len(RulerMarks) = 9
    /\ RulerMarks[9].t = 45

(***************************************************************************)
(* C26: for a measurement from (0,0) to (100,0) with spacing 25 and        *)
(* major_every 4 the ticks are drawn at the distances 25, 50, 75 and 100;  *)
(* the tick at distance 100 is the fourth, so it is major, and the other   *)
(* three are minor.                                                        *)
(***************************************************************************)
C26_Scenario ==
    /\ Called("measurement_ticks")
    /\ call_args.c.tick_enabled
    /\ call_args.c.tick_spacing = 25
    /\ call_args.c.tick_major_every = 4
    /\ call_args.ms = <<0, 0>>
    /\ call_args.me = <<100, 0>>

C26_FourthTickIsMajor ==
    C26_Scenario =>
        /\ [i \in DOMAIN RulerMarks |-> RulerMarks[i].t] = <<25, 50, 75, 100>>
        /\ [i \in DOMAIN RulerMarks |-> RulerMarks[i].major]
               = <<FALSE, FALSE, FALSE, TRUE>>

C26_Witness ==
    /\ C26_Scenario
    /\ call_args.c.tick_labels
    /\ Len(RulerMarks) = 4
    /\ Len(RulerLabels) = 1
    /\ RulerLabels[1].text = 100

(* C26 as stated: the tick at distance 100 is not major. *)
C26_FourthTickNotMajor ==
    C26_Scenario =>
        /\ [i \in DOMAIN RulerMarks |-> RulerMarks[i].t] = <<25, 50, 75, 100>>
        /\ \A i \in DOMAIN RulerMarks :
               RulerMarks[i].t = 100 => ~RulerMarks[i].major

(***************************************************************************)
(* C28: angle snapping returns the point unchanged whenever its distance   *)
(* from the origin is below 1 pixel (the origin itself included), and      *)
(* snapping that result again returns the same point.                      *)
(***************************************************************************)
C28_SnapDegenerateUnchanged ==
    ( /\ Called("snap_endpoint")
      /\ LET dx == call_args.p2[1] - call_args.p1[1]
             dy == call_args.p2[2] - call_args.p1[2]
         IN dx * dx + dy * dy < SubPx * SubPx )
    => \A i \in DOMAIN call_result : call_result[i] = call_args.p2

C28_Witness ==
    /\ Called("snap_endpoint")
    /\ call_args.p2[1] - call_args.p1[1] = SubPx \div 2
    /\ call_args.p2[2] - call_args.p1[2] = -(SubPx \div 2)
    /\ Len(call_result) = 2
    /\ call_result[2] = call_args.p2

(***************************************************************************)
(* C27: in measure mode while active, the rendered frame holds the         *)
(* measurement line, a marker at each end and the distance label with its  *)
(* background whenever both endpoints are set (also right after            *)
(* button-down, when start equals end), and holds nothing (but the fill    *)
(* that makes the window take clicks) when an endpoint is unset.           *)
(***************************************************************************)
C27_MeasureFrameComplete ==
    (active /\ mode = "measure" /\ ~draw_queued)
    => LET shown == SelectSeq(frame, LAMBDA d : d # "hit_fill")
       IN IF measure_start # None /\ measure_end # None
          THEN /\ {"line", "label_bg", "label"} \subseteq Range(shown)
               /\ Cardinality({j \in DOMAIN shown : shown[j] = "marker"}) = 2
          ELSE shown = <<>>

(***************************************************************************)
(* C29: measure_start and measure_end are both set or both unset in every  *)
(* reachable state, and a button-up that arrives in measure mode while no  *)
(* drag is in progress changes no state of the overlay.                    *)
(***************************************************************************)
C29_EndpointsArePair ==
    /\ []((measure_start = None) <=> (measure_end = None))
    /\ [][\A p \in Points, c \in BOOLEAN :
            ( /\ mode = "measure" /\ ~measuring
              /\ (OnButtonRelease(p, c, 1) \/ WmLButtonUp(p, c)) )
            => UNCHANGED <<ovars, frame, draw_queued>>]_vars

(***************************************************************************)
(* C30: during a drag, after each pointer move and at button-up,           *)
(* measure_end is the raw pointer position when Control is not held and    *)
(* the snapped point snap(start, raw) when it is held; measure_start is    *)
(* the button-down position and no move or button-up changes it.           *)
(***************************************************************************)
C30_DragEndFollowsPointer ==
    /\ [][\A p \in Points, c \in BOOLEAN :
            ( /\ mode = "measure" /\ measuring
              /\ \/ OnMotionNotify(p, c) \/ OnButtonRelease(p, c, 1)
                 \/ WmMouseMove(p, c) \/ WmLButtonUp(p, c) )
            => /\ measure_end' = IF c THEN SnapEndpoint(measure_start, p)
                                      ELSE p
               /\ measure_start' = measure_start]_vars
    /\ [][\A p \in Points :
            (mode = "measure" /\ (OnButtonPress(p, 1) \/ WmLButtonDown(p)))
            => (measure_start' = p /\ measure_end' = p /\ measuring')]_vars

C30_Witness ==
    /\ mode = "measure" /\ ~measuring
    /\ measure_start = <<0, 0>>
    /\ measure_end = SnapEndpoint(<<0, 0>>,
                         <<(ScreenW \div 2) * SubPx, (ScreenH \div 2) * SubPx>>)
    /\ measure_end \notin Points

(***************************************************************************)
(* C31: a pointer-poll tick in measure mode changes no state and requests  *)
(* no redraw; in crosshair mode it stores the polled position and requests *)
(* a redraw exactly when that position differs from the stored one.        *)
(***************************************************************************)
C31_PollOnlyInCrosshair ==
    [][\A p \in Points :
         (PollPointer(p) \/ WmTimer(p))
           => IF mode = "crosshair" /\ p # mpos
              THEN /\ mpos' = p
                   /\ effects' = RedrawFx
                   /\ UNCHANGED <<active, mode, measure_start, measure_end,
                                  measuring, capture, click_through,
                                  accept_focus, cursor, tray_mode>>
              ELSE /\ UNCHANGED ovars
                   /\ UNCHANGED <<frame, draw_queued, tray_mode>>
                   /\ effects' = {}]_vars

(* measure mode with a measurement, entered after a poll had moved the     *)
(* stored position; the last handler (a poll tick among them) did nothing  *)
C31_Witness ==
    /\ mode = "measure" /\ measure_start # None
    /\ mpos = <<(ScreenW \div 2) * SubPx, 0>>
    /\ effects = {}

(***************************************************************************)
(* C32: every frame is rendered from a settings record that is the         *)
(* complete result of some edit: a redraw that takes place while an edit   *)
(* is being written finds the overlay's settings equal to the record       *)
(* before that edit or to the record after it, never a mix of the two.     *)
(***************************************************************************)
C32_FrameFromCompleteRecord ==
    [][("redraw" \in effects' /\ TkBusy')
         => ov_cfg' \in {on_change_cfg', Update(on_change_cfg', widgets')}]_vars

(***************************************************************************)
(* C33: after save(name), whatever edits and loads of other favorites      *)
(* follow, load(name) sets every key of the record that was saved under    *)
(* name, in the settings record and in the settings applied to the         *)
(* overlay, to its saved value; a key the record has gained since (from a  *)
(* favorite of the favorites file that holds an unknown key) stays.        *)
(***************************************************************************)
C33_LoadRestoresSavedKeys ==
    [][\A n \in StoreNames :
         ( /\ LoadFavorite(n) \/ LoadFavoriteWin(n)
           /\ n \in DOMAIN snapshots )
         => /\ \A k \in DOMAIN snapshots[n] :
                  cfg'[k] = snapshots[n][k] /\ ov_cfg'[k] = snapshots[n][k]
            /\ DOMAIN cfg' = DOMAIN cfg
            /\ DOMAIN ov_cfg' = DOMAIN cfg]_vars

(* the saved favorite was loaded after the other one, which differs from   *)
(* it in a setting and holds a key the saved record does not have          *)
C33_Witness ==
    /\ "load_favorite" \in effects
    /\ \E n \in DOMAIN snapshots :
          /\ \A k \in DOMAIN snapshots[n] :
                cfg[k] = snapshots[n][k] /\ ov_cfg[k] = snapshots[n][k]
          /\ UnknownKey \in (DOMAIN cfg) \ (DOMAIN snapshots[n])
          /\ \E m \in (DOMAIN favorites) \ {n} :
                \E k \in (DOMAIN favorites[m]) \cap (DOMAIN DEFAULTS) :
                    favorites[m][k] # cfg[k]

(* C33 as stated: load(name) restores the settings record and the settings *)
(* applied to the overlay to exactly the record that was saved under name. *)
C33_LoadRestoresExactRecord ==
    [][\A n \in StoreNames :
         ( /\ LoadFavorite(n) \/ LoadFavoriteWin(n)
           /\ n \in DOMAIN snapshots )
         => (cfg' = snapshots[n] /\ ov_cfg' = snapshots[n])]_vars

(***************************************************************************)
(* C34: loading an existing favorite sets every key stored in the snapshot *)
(* to the snapshot's value, with or without unknown keys in it, and the    *)
(* record holds those values when the widgets have been resynchronised:    *)
(* the widget updates write nothing back into the record (also where a     *)
(* widget cannot show the value) and the load applies and schedules once.  *)
(***************************************************************************)
C34_LoadSetsSnapshotKeys ==
    /\ [][\A n \in StoreNames :
            ( /\ LoadFavorite(n) \/ LoadFavoriteWin(n)
              /\ n \in DOMAIN favorites )
            => /\ \A k \in DOMAIN favorites[n] : cfg'[k] = favorites[n][k]
               /\ \A k \in (DOMAIN cfg) \ (DOMAIN favorites[n]) :
                      cfg'[k] = cfg[k]
               /\ ov_cfg' = cfg'
               /\ phase' = phase
               /\ pending_timers' <= 1]_vars
    /\ [][TkUpdateWidgets
            => /\ UNCHANGED <<cfg, ov_cfg, favorites>>
               /\ widgets' = WidgetsOf(variant, cfg)
               /\ pending_timers' <= 1]_vars

(* linux: a favorite with an unknown key and a spacing below the spin      *)
(* button's minimum was loaded; the widget shows the minimum, the record   *)
(* the snapshot's value                                                    *)
C34_Witness ==
    /\ variant = "linux"
    /\ {"load_favorite", "apply_settings"} \subseteq effects
    /\ \E n \in DOMAIN favorites :
          /\ {UnknownKey, "tick_spacing", "tick_enabled"}
                \subseteq DOMAIN favorites[n]
          /\ \A k \in DOMAIN favorites[n] : cfg[k] = favorites[n][k]
    /\ cfg.tick_spacing < MinTickSpacing
    /\ widgets.tick_spacing = MinTickSpacing
    /\ ov_cfg = cfg

(***************************************************************************)
(* C35: the axis tick loops terminate for every pointer position and every *)
(* extent (full screen or radius, pointer inside or outside the window),   *)
(* and they are never entered with a spacing of zero or less.              *)
(***************************************************************************)
C35_TickLoopsTerminate ==
    /\ <>(tick_loop.pc = "done")
    /\ [](tick_loop.pc \in {"h", "v"} => tick_loop.sp > 0)

(***************************************************************************)
(* C36: whenever the mode is crosshair, measuring is false and both        *)
(* measurement endpoints are unset; measuring being true implies that the  *)
(* mode is measure and that both endpoints are set.                        *)
(***************************************************************************)
C36_ModeAndMeasurementAgree ==
    /\ (mode = "crosshair")
         => (~measuring /\ measure_start = None /\ measure_end = None)
    /\ measuring
         => (mode = "measure" /\ measure_start # None /\ measure_end # None)

(* a drag in progress whose end has moved away from its start *)
C36_Witness ==
    /\ measuring /\ mode = "measure"
    /\ measure_start # None /\ measure_end # None
    /\ measure_end # measure_start
    /\ effects = RedrawFx

(***************************************************************************)
(* C37: whenever the overlay is inactive and its (empty) frame is on       *)
(* screen, it does not intercept pointer input: toggling active off in     *)
(* measure mode leaves the desktop underneath clickable.                   *)
(***************************************************************************)
(* GTK: the input shape decides (empty region = click-through, None = the  *)
(* whole window).  Win32: without WS_EX_TRANSPARENT a layered window takes *)
(* the pointer on the pixels whose alpha is not zero, i.e. the hit fill.   *)
InterceptsPointer ==
    IF variant = "windows"
    THEN ~click_through /\ "hit_fill" \in Range(frame)
    ELSE ~click_through

C37_InactiveTakesNoInput ==
    (~active /\ ~draw_queued /\ frame = <<>>) => ~InterceptsPointer

(***************************************************************************)
(* The tray's "Settings" entry together with the overlay's own handlers:   *)
(* the tray can open the settings window in either mode, during a drag,    *)
(* and with mode requests still waiting in the overlay's message queue.    *)
(* The message loop (GetMessageW/DispatchMessageW) hands every posted      *)
(* WM_APP_MODE to set_mode, hence the weak fairness of WmAppMode.          *)
(***************************************************************************)
NextSettingsMode ==
    \/ NextOverlay
    \/ TrayOnSettings
    \/ TkDoShow

SpecSettingsMode ==
    Init /\ [][NextSettingsMode]_vars /\ WF_vars(WmAppMode)

(***************************************************************************)
(* C38: opening the settings window from the tray while the overlay is in  *)
(* measure mode switches it back to crosshair mode: once the request has   *)
(* been processed the mode is crosshair, click-through is restored and     *)
(* any measurement is cleared; opening it in crosshair mode causes no      *)
(* mode transition.                                                        *)
(***************************************************************************)
C38_SettingsLeavesMeasureMode ==
    /\ (thread = TrayThread /\ "show_settings" \in effects)
         ~> (/\ mode = "crosshair" /\ click_through
             /\ ~measuring /\ measure_start = None /\ measure_end = None)
    /\ [][(mode = "crosshair" /\ thread' = TrayThread
                             /\ "show_settings" \in effects')
            => UNCHANGED <<mode, click_through, measuring,
                           measure_start, measure_end>>]_vars

C38_Witness ==
    /\ variant = "windows"
    /\ thread = TrayThread /\ effects = {"post_message", "show_settings"}
    /\ mode = "measure" /\ measuring /\ measure_end # measure_start
    /\ Head(msgq) = "mode0"
====
